---- MODULE Spec2Model ----
(***************************************************************************)
(* Model of the rate-limited transport core of spacetraders-client.        *)
(*                                                                         *)
(* Part 1: package ratelimit, the TokenBucket.  Time is a discrete clock   *)
(* `now` (one unit = one nanosecond of time.Duration, scaled); Go's `int`  *)
(* is modelled as a two's complement integer of IntBits bits, so that      *)
(* `tb.tokens += tokensToAdd` wraps as it does in Go.  Each goroutine that *)
(* uses the bucket is a thread with a program counter; sync.Mutex is the   *)
(* variable `mutex`.  Allow and TryAllow take two steps inside the mutex:  *)
(* lock, refill and read tb.tokens; then write tb.tokens and unlock.       *)
(*                                                                         *)
(* Part 2: package transport, HTTPClient.Do.  A goroutine inside Do runs   *)
(* the bucket's Wait, then buildRequest, then http.Client.Do and           *)
(* io.ReadAll, then classifies the status.  The network and the server are *)
(* the environment: a call in flight is answered, or fails, or is aborted  *)
(* because the context its request was built with is done.                 *)
(***************************************************************************)
EXTENDS Integers, Sequences, FiniteSets, TLC

\* ---------------------------------------------------------------- bounds
\* width of Go's int in the model
IntBits == 6
\* the clock runs from 0 to MaxTime
MaxTime == 2
\* largest of the small capacities
MaxCap == 1
\* largest refillRate
MaxRate == 2
\* Allow/TryAllow bodies run in one behaviour
MaxAttempts == 3
\* the scaled time.Second, in units of time.Duration
Second == 2
\* where the clock stops for a bucket that is looked at after more than one
\* interval and a part of the next
LongTime == 3

Threads == {"g1", "g2"}
None == "none"

\* Go int, scaled to IntBits bits
MaxInt == 2 ^ (IntBits - 1) - 1
MinInt == 0 - 2 ^ (IntBits - 1)
WrapInt(x) == ((x - MinInt) % (2 ^ IntBits)) + MinInt

\* capacities a bucket is built with: small ones and the largest int
Capacities == (0 .. MaxCap) \cup {MaxInt}
RefillRates == 1 .. MaxRate

Min(a, b) == IF a < b THEN a ELSE b

VARIABLES
    capacity,     \* TokenBucket.capacity
    tokens,       \* TokenBucket.tokens
    refillRate,   \* TokenBucket.refillRate
    lastRefill,   \* TokenBucket.lastRefill
    mutex,        \* TokenBucket.mutex: None or the thread holding it
    now,          \* the monotonic clock read by time.Now()
    pc,           \* per thread: where it is
    reg,          \* per thread: the value of tb.tokens it read inside Allow/TryAllow
    wake,         \* per thread: the instant time.After(waitTime) fires
    ctxDone,      \* per thread, inside Wait: ctx.Done() is closed
    ctxAtCall,    \* per thread, inside Wait: ctx.Done() was closed when Wait was called
    lastOp,       \* the call that returned last, with what it returned
    admitted,     \* number of admissions granted so far (Allow, TryAllow, Wait)
    attempts,     \* number of Allow/TryAllow bodies completed so far
    resetCalled,  \* Reset has been called on this bucket
    exhaustedAt,  \* <<instant at which an admission took the last token>>, <<>> if
                  \* none did, or a token was left by a later one, or Reset was called
    token,        \* HTTPClient.token
    do,           \* per thread: the Do it is inside (see NoDo)
    netCalls,     \* number of http.Client.Do calls started so far
    auth,         \* AuthManager: token, agent (see NewAuthManager)
    amutex,       \* AuthManager.mutex: None or the thread holding it for writing
    game,         \* MockServer.gameState (see NewMockServer)
    call          \* per thread: the AuthManager method it is inside (see NoCall)

vars == <<capacity, tokens, refillRate, lastRefill, mutex, now, pc, reg, wake,
          ctxDone, ctxAtCall, lastOp, admitted, attempts, resetCalled, exhaustedAt,
          token, do, netCalls, auth, amutex, game, call>>

bucketConf == <<capacity, refillRate>>
ctx == <<ctxDone, ctxAtCall>>
dispatch == <<token, do, netCalls>>
authState == <<auth, amutex, game>>
client == <<authState, call>>

\* what lastOp holds: a call that returned, or a step that returned nothing yet
Op(name, t, res) == [name |-> name, thread |-> t, res |-> res]
Internal == Op("step", None, FALSE)
\* Wait returned res; fired: its ctx was already done when it was called
WaitOp(t, res, fired) == [name |-> "Wait", thread |-> t, res |-> res, fired |-> fired]

\* ------------------------------------------------------------ the bucket

\* the burst limit NewTokenBucket builds its bucket with
DefaultCapacity == 30

\* NewTokenBucket() at time.Now() = 0: 30 permits, one more every 500 ms
NewTokenBucket ==
    /\ capacity = DefaultCapacity
    /\ refillRate = Second \div 2
    /\ tokens = DefaultCapacity
    /\ lastRefill = 0
    /\ mutex = None
    /\ now = 0

\* NewCustomTokenBucket(capacity, refillRate) at time.Now() = 0
NewCustomTokenBucket ==
    /\ capacity \in Capacities
    /\ refillRate \in RefillRates
    /\ tokens = capacity
    /\ lastRefill = 0
    /\ mutex = None
    /\ now = 0

\* a Lock() that excludes nobody
MutexIgnored == TRUE

\* tb.mutex.Lock() returns only when nobody holds the mutex
MutexFree == mutex = None

\* refill() that forgets `tb.lastRefill = now`
refillNoStamp(tok, last, t) ==
    LET tokensToAdd == (t - last) \div refillRate
        sum == WrapInt(tok + tokensToAdd)
    IN  IF tokensToAdd > 0
        THEN [tokens |-> IF sum > capacity THEN capacity ELSE sum, lastRefill |-> last]
        ELSE [tokens |-> tok, lastRefill |-> last]

\* refill() that forgets to clamp tokens to capacity
refillNoClamp(tok, last, t) ==
    LET tokensToAdd == (t - last) \div refillRate
    IN  IF tokensToAdd > 0
        THEN [tokens |-> WrapInt(tok + tokensToAdd), lastRefill |-> t]
        ELSE [tokens |-> tok, lastRefill |-> last]

\* refill() that sets `tb.lastRefill = now` on every pass, also when it adds nothing
refillAlwaysStamp(tok, last, t) ==
    LET tokensToAdd == (t - last) \div refillRate
        sum == WrapInt(tok + tokensToAdd)
    IN  [tokens |-> IF tokensToAdd > 0 /\ sum > capacity THEN capacity ELSE sum,
         lastRefill |-> t]

\* refill() that counts a started interval as a whole one
refillRoundUp(tok, last, t) ==
    LET tokensToAdd == ((t - last) + refillRate - 1) \div refillRate
        sum == WrapInt(tok + tokensToAdd)
    IN  IF tokensToAdd > 0
        THEN [tokens |-> IF sum > capacity THEN capacity ELSE sum, lastRefill |-> t]
        ELSE [tokens |-> tok, lastRefill |-> last]

\* refill(): the tokens and lastRefill it leaves, read at instant t
refill(tok, last, t) ==
    LET elapsed == t - last
        tokensToAdd == elapsed \div refillRate
        sum == WrapInt(tok + tokensToAdd)
    IN  IF tokensToAdd > 0
        THEN [tokens |-> IF sum > capacity THEN capacity ELSE sum, lastRefill |-> t]
        ELSE [tokens |-> tok, lastRefill |-> last]

\* `if tb.tokens >= 0`
HasTokenOffByOne(tok) == tok >= 0

\* `if tb.tokens > 0`
HasToken(tok) == tok > 0

\* Lock, refill, and read tb.tokens: the first half of Allow/TryAllow
EnterBody(t) ==
    LET r == refill(tokens, lastRefill, now)
    IN  /\ MutexFree
        /\ attempts < MaxAttempts
        /\ mutex' = t
        /\ tokens' = r.tokens
        /\ lastRefill' = r.lastRefill
        /\ reg' = [reg EXCEPT ![t] = r.tokens]

\* tb.tokens-- when a token was seen, and the deferred Unlock
ExitBody(t) ==
    /\ mutex' = None
    /\ attempts' = attempts + 1
    /\ reg' = [reg EXCEPT ![t] = 0]
    /\ IF HasToken(reg[t])
       THEN /\ tokens' = WrapInt(reg[t] - 1)
            /\ admitted' = admitted + 1
            /\ exhaustedAt' = IF reg[t] - 1 = 0 THEN <<now>> ELSE <<>>
       ELSE /\ UNCHANGED <<tokens, admitted, exhaustedAt>>

AllowEnter(t) ==
    /\ pc[t] = "idle"
    /\ EnterBody(t)
    /\ pc' = [pc EXCEPT ![t] = "Allow"]
    /\ lastOp' = Internal
    /\ UNCHANGED <<bucketConf, client, dispatch, now, wake, ctx, admitted, attempts,
                   resetCalled, exhaustedAt>>

AllowExit(t) ==
    /\ pc[t] = "Allow"
    /\ ExitBody(t)
    /\ pc' = [pc EXCEPT ![t] = "idle"]
    /\ lastOp' = Op("Allow", t, HasToken(reg[t]))
    /\ UNCHANGED <<bucketConf, client, dispatch, lastRefill, now, wake, ctx, resetCalled>>

TryAllowEnter(t) ==
    /\ pc[t] = "idle"
    /\ EnterBody(t)
    /\ pc' = [pc EXCEPT ![t] = "TryAllow"]
    /\ lastOp' = Internal
    /\ UNCHANGED <<bucketConf, client, dispatch, now, wake, ctx, admitted, attempts,
                   resetCalled, exhaustedAt>>

TryAllowExit(t) ==
    /\ pc[t] = "TryAllow"
    /\ ExitBody(t)
    /\ pc' = [pc EXCEPT ![t] = "idle"]
    /\ lastOp' = Op("TryAllow", t, HasToken(reg[t]))
    /\ UNCHANGED <<bucketConf, client, dispatch, lastRefill, now, wake, ctx, resetCalled>>

\* Reset() that forgets `tb.lastRefill = time.Now()`
ResetNoStamp(t) ==
    /\ pc[t] = "idle"
    /\ MutexFree
    /\ tokens' = capacity
    /\ resetCalled' = TRUE
    /\ exhaustedAt' = <<>>
    /\ lastOp' = Op("Reset", t, FALSE)
    /\ UNCHANGED <<bucketConf, client, dispatch, lastRefill, mutex, now, pc, reg, wake, ctx,
                   admitted, attempts>>

\* Reset()
Reset(t) ==
    /\ pc[t] = "idle"
    /\ MutexFree
    /\ tokens' = capacity
    /\ lastRefill' = now
    /\ resetCalled' = TRUE
    /\ exhaustedAt' = <<>>
    /\ lastOp' = Op("Reset", t, FALSE)
    /\ UNCHANGED <<bucketConf, client, dispatch, mutex, now, pc, reg, wake, ctx, admitted,
                   attempts>>

\* GetState()
GetState(t) ==
    LET r == refill(tokens, lastRefill, now)
    IN  /\ pc[t] = "idle"
        /\ MutexFree
        /\ tokens' = r.tokens
        /\ lastRefill' = r.lastRefill
        /\ lastOp' = Op("GetState", t, r.tokens)
        /\ UNCHANGED <<bucketConf, client, dispatch, mutex, now, pc, reg, wake, ctx, admitted,
                       attempts, resetCalled, exhaustedAt>>

\* ------------------------------------------------------------------ Wait

\* a thread that is not inside HTTPClient.Do
NoDo == [active |-> FALSE, permits |-> 0, calls |-> 0, httpReq |-> <<>>,
         httpResp |-> <<>>]

\* a Do that does not look at the error its Wait returned
AfterWaitUnchecked(t, ok) == IF do[t].active THEN "DoBuild" ELSE "idle"

\* where a thread goes on when its Wait returns: to its caller, which is Do
\* (`if err := c.rateLimiter.Wait(ctx); err != nil`) or the code outside the model
AfterWait(t, ok) ==
    IF do[t].active THEN (IF ok THEN "DoBuild" ELSE "DoWaitErr") ELSE "idle"

\* the context of a call outside Do is dropped when Wait returns; Do keeps using it
CtxAfterWait(t, c) == IF do[t].active THEN c ELSE FALSE

\* Wait(ctx) is called, with a context that is live or already cancelled
WaitCall(t) ==
    /\ pc[t] = "idle"
    /\ pc' = [pc EXCEPT ![t] = "WaitLoop"]
    /\ \E done \in BOOLEAN :
           /\ ctxDone' = [ctxDone EXCEPT ![t] = done]
           /\ ctxAtCall' = [ctxAtCall EXCEPT ![t] = done]
    /\ lastOp' = Internal
    /\ UNCHANGED <<bucketConf, client, dispatch, tokens, lastRefill, mutex, now, reg, wake,
                   admitted, attempts, resetCalled, exhaustedAt>>

\* `if tb.Allow()` at the top of the loop: Allow's first half
WaitAllowEnter(t) ==
    /\ pc[t] = "WaitLoop"
    /\ EnterBody(t)
    /\ pc' = [pc EXCEPT ![t] = "WaitAllow"]
    /\ lastOp' = Internal
    /\ UNCHANGED <<bucketConf, client, dispatch, now, wake, ctx, admitted, attempts,
                   resetCalled, exhaustedAt>>

\* Allow's second half; `return nil` when it returned true
WaitAllowExit(t) ==
    /\ pc[t] = "WaitAllow"
    /\ ExitBody(t)
    /\ pc' = [pc EXCEPT ![t] = IF HasToken(reg[t]) THEN AfterWait(t, TRUE)
                                                    ELSE "WaitCalc"]
    /\ lastOp' = IF HasToken(reg[t]) THEN WaitOp(t, "ok", ctxAtCall[t]) ELSE Internal
    /\ ctxAtCall' = [ctxAtCall EXCEPT
                        ![t] = IF HasToken(reg[t]) THEN CtxAfterWait(t, @) ELSE @]
    /\ ctxDone' = [ctxDone EXCEPT
                      ![t] = IF HasToken(reg[t]) THEN CtxAfterWait(t, @) ELSE @]
    /\ do' = [do EXCEPT ![t].permits = IF do[t].active /\ HasToken(reg[t])
                                        THEN @ + 1 ELSE @]
    /\ UNCHANGED <<bucketConf, client, token, netCalls, lastRefill, now, wake, resetCalled>>

\* waitTime := tb.refillRate - time.Since(tb.lastRefill), at least refillRate when
\* that is <= 0; then the select is entered and time.After(waitTime) starts its timer
WaitSelect(t) ==
    LET w == refillRate - (now - lastRefill)
        waitTime == IF w <= 0 THEN refillRate ELSE w
    IN  /\ pc[t] = "WaitCalc"
        /\ MutexFree
        /\ wake' = [wake EXCEPT ![t] = now + waitTime]
        /\ pc' = [pc EXCEPT ![t] = "WaitSelect"]
        /\ lastOp' = Internal
        /\ UNCHANGED <<bucketConf, client, dispatch, tokens, lastRefill, mutex, now, reg, ctx,
                       admitted, attempts, resetCalled, exhaustedAt>>

\* a Wait that looks at ctx.Done() only when its timer has fired
WaitCancelledAtTimer(t) ==
    /\ pc[t] = "WaitSelect"
    /\ ctxDone[t]
    /\ now >= wake[t]
    /\ wake' = [wake EXCEPT ![t] = 0]
    /\ pc' = [pc EXCEPT ![t] = "idle"]
    /\ lastOp' = WaitOp(t, "cancelled", ctxAtCall[t])
    /\ ctxAtCall' = [ctxAtCall EXCEPT ![t] = FALSE]
    /\ ctxDone' = [ctxDone EXCEPT ![t] = FALSE]
    /\ UNCHANGED <<bucketConf, client, dispatch, tokens, lastRefill, mutex, now, reg,
                   admitted, attempts, resetCalled, exhaustedAt>>

\* case <-ctx.Done(): return ctx.Err()
WaitCancelled(t) ==
    /\ pc[t] = "WaitSelect"
    /\ ctxDone[t]
    /\ wake' = [wake EXCEPT ![t] = 0]
    /\ pc' = [pc EXCEPT ![t] = AfterWait(t, FALSE)]
    /\ lastOp' = WaitOp(t, "cancelled", ctxAtCall[t])
    /\ ctxAtCall' = [ctxAtCall EXCEPT ![t] = CtxAfterWait(t, @)]
    /\ ctxDone' = [ctxDone EXCEPT ![t] = CtxAfterWait(t, @)]
    /\ UNCHANGED <<bucketConf, client, dispatch, tokens, lastRefill, mutex, now, reg,
                   admitted, attempts, resetCalled, exhaustedAt>>

\* case <-time.After(waitTime): continue the loop
WaitTimer(t) ==
    /\ pc[t] = "WaitSelect"
    /\ now >= wake[t]
    /\ wake' = [wake EXCEPT ![t] = 0]
    /\ pc' = [pc EXCEPT ![t] = "WaitLoop"]
    /\ lastOp' = Internal
    /\ UNCHANGED <<bucketConf, client, dispatch, tokens, lastRefill, mutex, now, reg, ctx,
                   admitted, attempts, resetCalled, exhaustedAt>>

\* ---------------------------------------------------------- environment

\* where a thread is while it is inside Wait, and inside Do past its Wait
WaitStages == {"WaitLoop", "WaitAllow", "WaitCalc", "WaitSelect"}
DoStages == {"DoBuild", "DoWaitErr", "DoFlight", "DoRead"}

\* the context passed to a call in progress is cancelled (or its deadline passes)
Cancel(t) ==
    /\ pc[t] \in WaitStages \cup DoStages
    /\ ~ctxDone[t]
    /\ ctxDone' = [ctxDone EXCEPT ![t] = TRUE]
    /\ lastOp' = Internal
    /\ UNCHANGED <<bucketConf, client, dispatch, tokens, lastRefill, mutex, now, pc, reg, wake,
                   ctxAtCall, admitted, attempts, resetCalled, exhaustedAt>>

\* time passes; the horizon stays far enough below MaxInt that only a capacity
\* near MaxInt can make `tb.tokens += tokensToAdd` wrap
Tick ==
    /\ now < MaxTime
    /\ now + MaxCap < MaxInt
    /\ now' = now + 1
    /\ lastOp' = Internal
    /\ UNCHANGED <<bucketConf, client, dispatch, tokens, lastRefill, mutex, pc, reg, wake, ctx,
                   admitted, attempts, resetCalled, exhaustedAt>>

\* ------------------------------------------------- transport: the codecs

\* http status codes the code names
StatusOK == 200
StatusCreated == 201
StatusUnauthorized == 401
StatusNotFound == 404
StatusConflict == 409
StatusTooManyRequests == 429

\* Text is a sequence of one-character strings; a header value is a sequence of
\* strings (words or characters).  "" in Go is <<>> here.
Digits == <<"0", "1", "2", "3", "4", "5", "6", "7", "8", "9">>
IsDigit(c) == \E i \in 1 .. 10 : Digits[i] = c
DigitOf(c) == (CHOOSE i \in 1 .. 10 : Digits[i] = c) - 1

\* the number a sequence of decimal digits denotes
RECURSIVE Magnitude(_)
Magnitude(s) ==
    IF s = <<>> THEN 0
    ELSE 10 * Magnitude(SubSeq(s, 1, Len(s) - 1)) + DigitOf(s[Len(s)])

\* strconv.Itoa
RECURSIVE DigitsOf(_)
DigitsOf(n) ==
    IF n < 10 THEN <<Digits[n + 1]>>
    ELSE Append(DigitsOf(n \div 10), Digits[(n % 10) + 1])
Itoa(n) == IF n < 0 THEN <<"-">> \o DigitsOf(0 - n) ELSE DigitsOf(n)

\* strconv.Atoi / strconv.ParseInt(s, 10, 64): the value and whether err == nil.
\* A syntax error gives 0; a range error gives the nearest representable value.
Atoi(s) ==
    LET signed == s # <<>> /\ s[1] \in {"+", "-"}
        ds == IF signed THEN Tail(s) ELSE s
        neg == signed /\ s[1] = "-"
        m == Magnitude(ds)
    IN  IF ds = <<>> \/ \E i \in 1 .. Len(ds) : ~IsDigit(ds[i])
        THEN [v |-> 0, ok |-> FALSE]
        ELSE IF ~neg /\ m > MaxInt THEN [v |-> MaxInt, ok |-> FALSE]
        ELSE IF neg /\ 0 - m < MinInt THEN [v |-> MinInt, ok |-> FALSE]
        ELSE [v |-> IF neg THEN 0 - m ELSE m, ok |-> TRUE]

\* textproto.CanonicalMIMEHeaderKey, on the header names of the model
CanonicalMIMEHeaderKey(k) ==
    CASE k = "authorization" -> "Authorization"
      [] k = "retry-after" -> "Retry-After"
      [] k = "x-ratelimit-type" -> "X-Ratelimit-Type"
      [] k = "x-ratelimit-limit" -> "X-Ratelimit-Limit"
      [] k = "x-ratelimit-remaining" -> "X-Ratelimit-Remaining"
      [] k = "x-ratelimit-reset" -> "X-Ratelimit-Reset"
      [] OTHER -> k

\* http.Header: a function from canonical names to values
NoHeaders == <<>>
HeaderSet(h, k, v) ==
    [n \in DOMAIN h \cup {CanonicalMIMEHeaderKey(k)} |->
        IF n = CanonicalMIMEHeaderKey(k) THEN v ELSE h[n]]
HeaderGet(h, k) ==
    IF CanonicalMIMEHeaderKey(k) \in DOMAIN h THEN h[CanonicalMIMEHeaderKey(k)]
    ELSE <<>>

\* time.Time: the zero Time, or an instant given in Unix seconds
ZeroTime == [zero |-> TRUE, unix |-> 0]
Unix(n) == [zero |-> FALSE, unix |-> n]

\* time.Parse(time.RFC3339, s), on the texts of the model: "T" followed by the
\* digits of the instant stands for an RFC 3339 date-time
ParseRFC3339(s) ==
    IF Len(s) >= 2 /\ s[1] = "T" /\ Atoi(Tail(s)).ok /\ Tail(s)[1] \notin {"+", "-"}
    THEN [t |-> Unix(Atoi(Tail(s)).v), ok |-> TRUE]
    ELSE [t |-> ZeroTime, ok |-> FALSE]

\* parseIntHeader: `i, _ := strconv.Atoi(value)`
parseIntHeader(value) == IF value = <<>> THEN 0 ELSE Atoi(value).v

\* parseTimeHeader
parseTimeHeader(value) ==
    IF value = <<>> THEN ZeroTime
    ELSE IF Atoi(value).ok THEN Unix(Atoi(value).v)
    ELSE IF ParseRFC3339(value).ok THEN ParseRFC3339(value).t
    ELSE ZeroTime

\* handleRateLimitResponse: the *RateLimitError built from the response's headers
handleRateLimitResponse(h) ==
    LET retryAfterHeader == HeaderGet(h, "Retry-After")
        seconds == Atoi(retryAfterHeader)
    IN  [kind |-> "RateLimitError",
         Type |-> HeaderGet(h, "x-ratelimit-type"),
         RetryAfter |-> IF retryAfterHeader # <<>> /\ seconds.ok
                        THEN WrapInt(seconds.v * Second) ELSE 0,
         Limit |-> parseIntHeader(HeaderGet(h, "x-ratelimit-limit")),
         Remaining |-> parseIntHeader(HeaderGet(h, "x-ratelimit-remaining")),
         Reset |-> parseTimeHeader(HeaderGet(h, "x-ratelimit-reset"))]

\* response bodies: a JSON API error, other JSON, and text that is not JSON
Bodies == {"{error}", "{data}", "plain"}
\* json.Unmarshal(body, &apiError) succeeds
Unmarshals(body) == body # "plain"

\* a parseAPIError that leaves StatusCode unset when the body does not decode
parseAPIErrorRawNoStatus(body, statusCode) ==
    IF ~Unmarshals(body)
    THEN [kind |-> "APIError", StatusCode |-> 0, Message |-> body, Code |-> 0]
    ELSE [kind |-> "APIError", StatusCode |-> statusCode,
          Message |-> IF body = "{error}" THEN "message" ELSE "",
          Code |-> IF body = "{error}" THEN statusCode ELSE 0]

\* parseAPIError: the *APIError, whether the body decodes or not
parseAPIError(body, statusCode) ==
    IF ~Unmarshals(body)
    THEN [kind |-> "APIError", StatusCode |-> statusCode, Message |-> body, Code |-> 0]
    ELSE [kind |-> "APIError", StatusCode |-> statusCode,
          Message |-> IF body = "{error}" THEN "message" ELSE "",
          Code |-> IF body = "{error}" THEN statusCode ELSE 0]

\* the nil error, and the errors Do wraps with fmt.Errorf
NilError == [kind |-> "nil"]
WrappedError(text) == [kind |-> text]

\* fmt.Errorf(text + ": %w", err): an error that wraps err
Wrapf(text, err) == [kind |-> "wrapped", text |-> text, cause |-> err]

\* the error at the end of err's chain of wrapped errors
RECURSIVE Cause(_)
Cause(err) == IF err.kind = "wrapped" THEN Cause(err.cause) ELSE err

\* errors.As against *RateLimitError and *APIError
IsRateLimitError(err) == Cause(err).kind = "RateLimitError"
IsAPIError(err) == Cause(err).kind = "APIError"
\* an IsAuthError that asserts the type of err itself and does not unwrap it
IsAuthErrorDirect(err) == err.kind = "APIError" /\ err.StatusCode = StatusUnauthorized

IsAuthError(err) == IsAPIError(err) /\ Cause(err).StatusCode = StatusUnauthorized

\* the tail of Do that tests `>= 400` before StatusTooManyRequests
classifyGenericFirst(httpResp) ==
    IF httpResp.StatusCode >= 400
    THEN parseAPIError(httpResp.Body, httpResp.StatusCode)
    ELSE IF httpResp.StatusCode = StatusTooManyRequests
    THEN handleRateLimitResponse(httpResp.Header)
    ELSE NilError

\* the tail of Do: the error returned next to the Response
classify(httpResp) ==
    IF httpResp.StatusCode = StatusTooManyRequests
    THEN handleRateLimitResponse(httpResp.Header)
    ELSE IF httpResp.StatusCode >= 400
    THEN parseAPIError(httpResp.Body, httpResp.StatusCode)
    ELSE NilError

\* response := &Response{StatusCode, Headers, Body}
Response(httpResp) ==
    [StatusCode |-> httpResp.StatusCode, Headers |-> httpResp.Header,
     Body |-> httpResp.Body]

\* ---------------------------------------------- transport: buildRequest

\* HTTPClient.userAgent, as DefaultConfig sets it
userAgent == <<"SpaceTraders-Go-Client/1.0">>

\* the tokens a client may hold: none, or one the server issued
Tokens == {"", "valid"}

\* `for key, value := range req.Headers { httpReq.Header.Set(key, value) }`, for
\* a map whose keys stay distinct when canonicalised
SetAll(h, custom) ==
    LET names == {CanonicalMIMEHeaderKey(k) : k \in DOMAIN custom}
        keyOf(n) == CHOOSE k \in DOMAIN custom : CanonicalMIMEHeaderKey(k) = n
    IN  [n \in DOMAIN h \cup names |-> IF n \in names THEN custom[keyOf(n)] ELSE h[n]]

\* the headers buildRequest sets itself, in its order: User-Agent, Content-Type
\* when there is a body, Authorization when there is a token
ownHeaders(h, req) ==
    LET h0 == HeaderSet(h, "User-Agent", userAgent)
        h1 == IF req.Body # "nil"
              THEN HeaderSet(h0, "Content-Type", <<"application/json">>) ELSE h0
    IN  IF token # "" THEN HeaderSet(h1, "Authorization", <<"Bearer", token>>) ELSE h1

\* what buildRequest returns when it fails
BuildFailed == [ok |-> FALSE, ctx |-> FALSE, Header |-> NoHeaders]

\* a buildRequest that sets its own headers after the caller's
buildRequestOwnLast(req) ==
    IF req.Body = "unmarshalable" THEN BuildFailed
    ELSE [ok |-> TRUE, ctx |-> TRUE,
          Header |-> ownHeaders(SetAll(NoHeaders, req.Headers), req)]

\* a buildRequest that uses http.NewRequest: the request is not bound to ctx
buildRequestNoContext(req) ==
    IF req.Body = "unmarshalable" THEN BuildFailed
    ELSE [ok |-> TRUE, ctx |-> FALSE,
          Header |-> SetAll(ownHeaders(NoHeaders, req), req.Headers)]

\* buildRequest(ctx, req): json.Marshal of the body may fail; otherwise the
\* request is bound to ctx and carries the client's headers, then the caller's
buildRequest(req) ==
    IF req.Body = "unmarshalable" THEN BuildFailed
    ELSE [ok |-> TRUE, ctx |-> TRUE,
          Header |-> SetAll(ownHeaders(NoHeaders, req), req.Headers)]

\* --------------------------------------------------- the mock server

\* GameState.Tokens: the tokens the server has issued
MockTokens == {"valid"}

\* checkAuth
checkAuth(h) ==
    LET authHeader == HeaderGet(h, "Authorization")
    IN  Len(authHeader) = 2 /\ authHeader[1] = "Bearer" /\ authHeader[2] \in MockTokens

\* writeRateLimitError
writeRateLimitError ==
    [StatusCode |-> StatusTooManyRequests,
     Header |-> HeaderSet(HeaderSet(HeaderSet(HeaderSet(NoHeaders,
                    "x-ratelimit-type", <<"requests">>),
                    "x-ratelimit-limit", <<"3", "0">>),
                    "x-ratelimit-remaining", <<"0">>),
                    "Retry-After", <<"1">>),
     Body |-> "{error}"]

\* writeError(w, statusCode, message)
writeError(statusCode) ==
    [StatusCode |-> statusCode, Header |-> NoHeaders, Body |-> "{error}"]

\* writeAuthError
writeAuthError == writeError(StatusUnauthorized)

\* writeJSONResponse(w, statusCode, data)
writeJSONResponse(statusCode) ==
    [StatusCode |-> statusCode, Header |-> NoHeaders, Body |-> "{data}"]

\* withMiddleware(handleGetAgent), for GET /my/agent: the server's own bucket
\* denies the request (limited) or not; then checkAuth; then the handler
withMiddleware(httpReq, limited) ==
    IF limited THEN writeRateLimitError
    ELSE IF ~checkAuth(httpReq.Header) THEN writeAuthError
    ELSE writeJSONResponse(StatusOK)

\* ------------------------------------------------- transport: HTTPClient.Do

\* GET /my/agent, as AuthManager.GetAgent builds it
GetAgentRequest == [Body |-> "nil", Headers |-> NoHeaders]

\* the requests concurrent callers pass to Do: GET /my/agent, and a request whose
\* body does not marshal
DoRequests == {GetAgentRequest, [Body |-> "unmarshalable", Headers |-> NoHeaders]}

\* the answers concurrent calls get: the mock server's, and a 404 that is not JSON
DoResponses ==
    {writeRateLimitError, writeAuthError, writeJSONResponse(StatusOK),
     [StatusCode |-> StatusNotFound, Header |-> NoHeaders, Body |-> "plain"]}

\* the headers a caller passes in req.Headers: any of these names, and the
\* Authorization header under a key that is not canonical
CallerHeaderNames == {"Authorization", "Content-Type", "User-Agent", "X-Request-Id"}
CallerHeaders ==
    {[k \in K |-> <<"caller">>] : K \in SUBSET CallerHeaderNames}
        \cup {[k \in {"authorization"} |-> <<"caller">>]}

\* the requests buildRequest may be given
Requests == [Body : {"nil", "data", "unmarshalable"}, Headers : CallerHeaders]

\* the texts a server may put in a numeric header: none, numbers inside and
\* outside the range of int, and text that is no number
NumberTexts ==
    {<<>>, <<"0">>, <<"1">>, <<"-", "1">>, <<"3", "0">>, Itoa(MaxInt),
     Itoa(MaxInt + 1), <<"x">>}
\* the texts of x-ratelimit-reset: none, Unix seconds, RFC 3339, neither
TimeTexts == {<<>>, <<"1">>, <<"T", "1">>, <<"x">>}

\* the headers a 429 may carry
RateLimitHeaders ==
    {[n \in {"Retry-After", "X-Ratelimit-Type", "X-Ratelimit-Limit",
             "X-Ratelimit-Remaining", "X-Ratelimit-Reset"} |->
        CASE n = "Retry-After" -> ra
          [] n = "X-Ratelimit-Type" -> ty
          [] n = "X-Ratelimit-Limit" -> li
          [] n = "X-Ratelimit-Remaining" -> re
          [] OTHER -> rs] :
       ra \in NumberTexts, li \in NumberTexts, re \in NumberTexts,
       ty \in {<<>>, <<"requests">>}, rs \in TimeTexts}
      \cup {NoHeaders, writeRateLimitError.Header}

\* the status codes a server may answer with
Statuses == {StatusOK, 204, 302, 399, 400, StatusUnauthorized, 403, StatusNotFound,
             StatusTooManyRequests, 500, 503}

\* the answers http.Client.Do may return
Responses ==
    [StatusCode : Statuses \ {StatusTooManyRequests}, Header : {NoHeaders},
     Body : Bodies]
      \cup [StatusCode : {StatusTooManyRequests}, Header : RateLimitHeaders,
            Body : {"{error}"}]

\* a thread that is not inside a method of the AuthManager.  Inside one: op is the
\* method and arg the call sign and faction of RegisterAgent; resp and err are what its Do returned, sent is
\* <<the Authorization header of the request it dispatched>>, data is <<what the
\* JSON body of the answer carries>>; write is the token it is writing to
\* HTTPClient.token and ret the error it will return when that is done
NoCall == [op |-> None, arg |-> <<>>, resp |-> <<>>, err |-> NilError, sent |-> <<>>,
           data |-> <<>>, write |-> "", ret |-> NilError]

\* where a thread goes on when its Do returns: to its caller, which is a method of
\* the AuthManager or the code outside the model
AfterDo(t) == IF call[t].op = None THEN "idle" ELSE "AuthTail"

\* `resp, err := a.httpClient.Do(ctx, req)` in a method of the AuthManager
Returned(t, resp, err) ==
    IF call[t].op = None THEN call[t]
    ELSE [call[t] EXCEPT
            !.resp = resp, !.err = err,
            !.sent = IF do[t].httpReq = <<>> THEN <<>>
                     ELSE <<HeaderGet(do[t].httpReq[1].Header, "Authorization")>>]

\* a thread inside Do: the permits its Wait consumed, the http.Client.Do calls it
\* started, the request it built and the response it received (<<>> when none)
InDo == [active |-> TRUE, permits |-> 0, calls |-> 0, httpReq |-> <<>>,
         httpResp |-> <<>>]

\* what Do returned: resp is <<>> for a nil *Response, res is the error; done: its
\* ctx was done when it returned; fired: its ctx was done when it was called
DoOp(t, resp, err) ==
    [name |-> "Do", thread |-> t, res |-> err, resp |-> resp,
     done |-> ctxDone[t], fired |-> ctxAtCall[t]]

\* Do returns (resp, err) to its caller
DoReturn(t, resp, err) ==
    /\ pc' = [pc EXCEPT ![t] = AfterDo(t)]
    /\ lastOp' = DoOp(t, resp, err)
    /\ call' = [call EXCEPT ![t] = Returned(t, resp, err)]
    /\ do' = [do EXCEPT ![t] = NoDo]
    /\ ctxDone' = [ctxDone EXCEPT ![t] = FALSE]
    /\ ctxAtCall' = [ctxAtCall EXCEPT ![t] = FALSE]

\* SetToken
SetToken(tok) ==
    /\ token # tok
    /\ token' = tok
    /\ lastOp' = Internal
    /\ UNCHANGED <<bucketConf, client, tokens, lastRefill, mutex, now, pc, reg, wake, ctx,
                   admitted, attempts, resetCalled, exhaustedAt, do, netCalls>>

\* Do(ctx, req) is called and calls c.rateLimiter.Wait(ctx); ctx is live or
\* already done
DoCall(t) ==
    /\ pc[t] = "idle"
    /\ pc' = [pc EXCEPT ![t] = "WaitLoop"]
    /\ do' = [do EXCEPT ![t] = InDo]
    /\ \E done \in BOOLEAN :
           /\ ctxDone' = [ctxDone EXCEPT ![t] = done]
           /\ ctxAtCall' = [ctxAtCall EXCEPT ![t] = done]
    /\ lastOp' = Internal
    /\ UNCHANGED <<bucketConf, client, tokens, lastRefill, mutex, now, reg, wake,
                   admitted, attempts, resetCalled, exhaustedAt, token, netCalls>>

\* a Do that goes on to build its request when Wait returned an error
DoWaitErrIgnored(t) ==
    /\ pc[t] = "DoWaitErr"
    /\ pc' = [pc EXCEPT ![t] = "DoBuild"]
    /\ lastOp' = Internal
    /\ UNCHANGED <<bucketConf, client, dispatch, tokens, lastRefill, mutex, now, reg, wake,
                   ctx, admitted, attempts, resetCalled, exhaustedAt>>

\* Wait returned an error: `return nil, fmt.Errorf("rate limiter cancelled: %w", err)`
DoWaitErr(t) ==
    /\ pc[t] = "DoWaitErr"
    /\ DoReturn(t, <<>>, WrappedError("rate limiter cancelled"))
    /\ UNCHANGED <<bucketConf, authState, tokens, lastRefill, mutex, now, reg, wake,
                   admitted, attempts, resetCalled, exhaustedAt, token, netCalls>>

\* Wait returned nil: buildRequest, and on success c.httpClient.Do(httpReq) is
\* called; on failure `return nil, fmt.Errorf("failed to build request: %w", err)`
DoBuildOf(t, reqs) ==
    /\ pc[t] = "DoBuild"
    /\ \E req \in reqs :
         LET httpReq == buildRequest(req)
         IN  IF httpReq.ok
             THEN /\ pc' = [pc EXCEPT ![t] = "DoFlight"]
                  /\ do' = [do EXCEPT ![t].httpReq = <<httpReq>>,
                                      ![t].calls = @ + 1]
                  /\ netCalls' = netCalls + 1
                  /\ lastOp' = Internal
                  /\ UNCHANGED <<ctx, call>>
             ELSE /\ DoReturn(t, <<>>, WrappedError("failed to build request"))
                  /\ UNCHANGED netCalls
    /\ UNCHANGED <<bucketConf, authState, tokens, lastRefill, mutex, now, reg, wake,
                   admitted, attempts, resetCalled, exhaustedAt, token>>

\* buildRequest and the send, in a Do of concurrent callers
DoBuild(t) == DoBuildOf(t, DoRequests)

\* net/http aborts a call, and the read of its body, once the context the request
\* was built with is done
Aborted(t) == do[t].httpReq[1].ctx /\ ctxDone[t]

\* the status line and headers of an answer arrive: c.httpClient.Do returns httpResp
Received(t, httpResp) ==
    /\ pc[t] = "DoFlight"
    /\ ~Aborted(t)
    /\ pc' = [pc EXCEPT ![t] = "DoRead"]
    /\ do' = [do EXCEPT ![t].httpResp = <<httpResp>>]
    /\ lastOp' = Internal
    /\ UNCHANGED <<bucketConf, client, tokens, lastRefill, mutex, now, reg, wake, ctx,
                   admitted, attempts, resetCalled, exhaustedAt, token, netCalls>>

\* the mock server answers the call in flight
MockRespond(t) ==
    \E limited \in BOOLEAN : Received(t, withMiddleware(do[t].httpReq[1], limited))

\* a server answers one of the concurrent calls in flight
NetRespond(t) ==
    \E httpResp \in DoResponses : Received(t, httpResp)

\* c.httpClient.Do returns an error (no connection, timeout, or the context is
\* done): `return nil, fmt.Errorf("request failed: %w", err)`
NetFail(t) ==
    /\ pc[t] = "DoFlight"
    /\ DoReturn(t, <<>>, WrappedError("request failed"))
    /\ UNCHANGED <<bucketConf, authState, tokens, lastRefill, mutex, now, reg, wake,
                   admitted, attempts, resetCalled, exhaustedAt, token, netCalls>>

\* a Do that returns the Response it has even when reading the body failed
DoReadFailWithResponse(t) ==
    /\ pc[t] = "DoRead"
    /\ DoReturn(t, <<[StatusCode |-> do[t].httpResp[1].StatusCode,
                      Headers |-> do[t].httpResp[1].Header, Body |-> ""]>>,
                WrappedError("failed to read response body"))
    /\ UNCHANGED <<bucketConf, authState, tokens, lastRefill, mutex, now, reg, wake,
                   admitted, attempts, resetCalled, exhaustedAt, token, netCalls>>

\* io.ReadAll(httpResp.Body) fails (the connection drops, or the context is done):
\* `return nil, fmt.Errorf("failed to read response body: %w", err)`
DoReadFail(t) ==
    /\ pc[t] = "DoRead"
    /\ DoReturn(t, <<>>, WrappedError("failed to read response body"))
    /\ UNCHANGED <<bucketConf, authState, tokens, lastRefill, mutex, now, reg, wake,
                   admitted, attempts, resetCalled, exhaustedAt, token, netCalls>>

\* a Do that waits for a new permit and sends the request again on a 429
DoReadAllRetry(t) ==
    /\ pc[t] = "DoRead"
    /\ ~Aborted(t)
    /\ IF do[t].httpResp[1].StatusCode = StatusTooManyRequests
       THEN /\ pc' = [pc EXCEPT ![t] = "WaitLoop"]
            /\ do' = [do EXCEPT ![t].httpReq = <<>>, ![t].httpResp = <<>>]
            /\ lastOp' = Internal
            /\ UNCHANGED <<ctx, call>>
       ELSE DoReturn(t, <<Response(do[t].httpResp[1])>>, classify(do[t].httpResp[1]))
    /\ UNCHANGED <<bucketConf, authState, tokens, lastRefill, mutex, now, reg, wake,
                   admitted, attempts, resetCalled, exhaustedAt, token, netCalls>>

\* io.ReadAll succeeds: the Response is built and returned with the error its
\* status calls for
DoReadAll(t) ==
    /\ pc[t] = "DoRead"
    /\ ~Aborted(t)
    /\ DoReturn(t, <<Response(do[t].httpResp[1])>>, classify(do[t].httpResp[1]))
    /\ UNCHANGED <<bucketConf, authState, tokens, lastRefill, mutex, now, reg, wake,
                   admitted, attempts, resetCalled, exhaustedAt, token, netCalls>>

\* ------------------------------------------------------ package auth

\* NewAuthManager(&Config{HTTPClient: httpClient, Token: configToken}): the token
\* is kept in the AuthManager; no agent is cached.  agent is <<>> for nil, else
\* <<the agent's symbol>>; under is the token the cached agent was obtained with
NewAuthManager(configToken) ==
    /\ auth = [token |-> configToken, agent |-> <<>>, under |-> ""]
    /\ amutex = None

\* GetToken and IsAuthenticated (isTokenExpired is always false)
GetToken == auth.token
IsAuthenticated == auth.token # ""

\* the characters of a call sign: letters, digits, underscore
Letters ==
    {"A", "B", "C", "D", "E", "F", "G", "H", "I", "J", "K", "L", "M", "N", "O", "P",
     "Q", "R", "S", "T", "U", "V", "W", "X", "Y", "Z",
     "a", "b", "c", "d", "e", "f", "g", "h", "i", "j", "k", "l", "m", "n", "o", "p",
     "q", "r", "s", "t", "u", "v", "w", "x", "y", "z"}

\* an isValidCallSign that does not look at the length
isValidCallSignAnyLength(callSign) ==
    \A i \in 1 .. Len(callSign) :
        callSign[i] \in Letters \/ IsDigit(callSign[i]) \/ callSign[i] = "_"

\* isValidCallSign
isValidCallSign(callSign) ==
    IF Len(callSign) < 3 \/ Len(callSign) > 14 THEN FALSE
    ELSE \A i \in 1 .. Len(callSign) :
            callSign[i] \in Letters \/ IsDigit(callSign[i]) \/ callSign[i] = "_"

\* the factions isValidFaction knows
validFactions ==
    {"COSMIC", "VOID", "GALACTIC", "QUANTUM", "DOMINION", "ASTRO", "CORSAIRS",
     "OBSIDIAN", "AEGIS", "UNITED", "SOLITARY", "COBALT", "OMEGA", "ECHO", "LORDS",
     "CULT", "ANCIENTS", "SHADOW", "ETHERIC"}

\* strings.EqualFold, on the faction names of the model
ToUpper(name) == IF name = "cosmic" THEN "COSMIC" ELSE name
EqualFold(a, b) == ToUpper(a) = ToUpper(b)

\* isValidFaction
isValidFaction(faction) == \E valid \in validFactions : EqualFold(faction, valid)

\* the call signs RegisterAgent is given: two that are valid, and the empty one, one
\* too short, one too long, and two with a character that is not allowed
Agent1 == <<"A", "G", "_", "1">>
Agent2 == <<"a", "g", "2">>
CallSigns ==
    {Agent1, Agent2, <<>>, <<"A", "B">>,
     <<"A", "B", "C", "D", "E", "F", "G", "H", "I", "J", "K", "L", "M", "N", "O">>,
     <<"A", "B", "C", "-", "1">>, <<"a", "b", " ", "1">>}
\* the factions RegisterAgent is given
Factions == {"COSMIC", "cosmic", "INVALID_FACTION", ""}

\* ------------------------------------ the mock server: its game state

\* NewMockServer: no agent is registered, no ship or contract exists and no
\* token is issued.  Tokens maps each issued token to its agent's symbol.
NewMockServer == game = [Agents |-> {}, Ships |-> {}, Contracts |-> {}, Tokens |-> <<>>]

\* generateToken: "mock-token-" + agentSymbol + "-" + the Unix time
generateToken(agentSymbol) ==
    CASE agentSymbol = Agent1 -> "mock-token-AG_1-0"
      [] agentSymbol = Agent2 -> "mock-token-ag2-0"
      [] OTHER -> "mock-token--0"

\* the token of a header `Authorization: Bearer <token>`, "" when there is none
BearerOf(authHeader) ==
    IF Len(authHeader) = 2 /\ authHeader[1] = "Bearer" THEN authHeader[2] ELSE ""

\* checkAuth, against the tokens issued so far
checkAuthIn(g, h) == BearerOf(HeaderGet(h, "Authorization")) \in DOMAIN g.Tokens

\* getAgentFromToken: <<the symbol>>, or <<>> for ""
getAgentFromToken(g, h) ==
    LET tok == BearerOf(HeaderGet(h, "Authorization"))
    IN  IF tok \in DOMAIN g.Tokens THEN <<g.Tokens[tok]>> ELSE <<>>

\* what a handler leaves: the answer, the game state, and <<the data its JSON
\* body carries>>
Served(httpResp, g, data) == [httpResp |-> httpResp, game |-> g, data |-> data]

\* a handleRegister that does not look whether the agent exists
handleRegisterAgain(g, symbol) ==
    Served(writeJSONResponse(StatusCreated),
           [Agents |-> g.Agents \cup {symbol},
            Ships |-> g.Ships \cup {symbol \o <<"-", "1">>},
            Contracts |-> g.Contracts \cup {<<"contract-">> \o symbol \o <<"-", "1">>},
            Tokens |-> [k \in DOMAIN g.Tokens \cup {generateToken(symbol)} |->
                          IF k = generateToken(symbol) THEN symbol ELSE g.Tokens[k]]],
           <<[Agent |-> symbol, Token |-> generateToken(symbol)]>>)

\* handleRegister, for a POST whose body names a symbol and a faction: inside
\* m.mutex, 409 when the agent exists; else agent, ship, contract and token are
\* stored and returned
handleRegister(g, symbol) ==
    IF symbol \in g.Agents
    THEN Served(writeError(StatusConflict), g, <<>>)
    ELSE Served(writeJSONResponse(StatusCreated),
                [Agents |-> g.Agents \cup {symbol},
                 Ships |-> g.Ships \cup {symbol \o <<"-", "1">>},
                 Contracts |-> g.Contracts
                                 \cup {<<"contract-">> \o symbol \o <<"-", "1">>},
                 Tokens |-> [k \in DOMAIN g.Tokens \cup {generateToken(symbol)} |->
                               IF k = generateToken(symbol) THEN symbol
                               ELSE g.Tokens[k]]],
                <<[Agent |-> symbol, Token |-> generateToken(symbol)]>>)

\* handleGetAgent, for a GET
handleGetAgent(g, h) ==
    LET agentSymbol == getAgentFromToken(g, h)
    IN  IF agentSymbol = <<>> THEN Served(writeAuthError, g, <<>>)
        ELSE IF agentSymbol[1] \notin g.Agents
        THEN Served(writeError(StatusNotFound), g, <<>>)
        ELSE Served(writeJSONResponse(StatusOK), g, <<[Agent |-> agentSymbol[1]]>>)

\* withRateLimit(handleRegister): the server's own bucket denies the request
\* (limited) or not
withRateLimit(g, symbol, limited) ==
    IF limited THEN Served(writeRateLimitError, g, <<>>) ELSE handleRegister(g, symbol)

\* withMiddleware(handleGetAgent), against the tokens issued so far
withMiddlewareIn(g, h, limited) ==
    IF limited THEN Served(writeRateLimitError, g, <<>>)
    ELSE IF ~checkAuthIn(g, h) THEN Served(writeAuthError, g, <<>>)
    ELSE handleGetAgent(g, h)

\* ----------------------------------------- the methods of the AuthManager

\* the bucket and the count of calls: what no step of the AuthManager itself touches
limiter == <<bucketConf, tokens, lastRefill, mutex, now, reg, wake, admitted,
             attempts, resetCalled, exhaustedAt, netCalls>>

\* a.mutex.Lock() and a.mutex.RLock() return only when nobody holds it for writing
\* (a section that only reads is one step, so readers never show as holders)
AuthMutexFree == amutex = None

\* a thread inside method op
InCall(op, arg) == [NoCall EXCEPT !.op = op, !.arg = arg]

\* the tokens the user passes to SetToken: one no server issued, and the one the
\* mock server issues for the first call sign
UserTokens == {"existing-token", generateToken(Agent1)}

\* what a read of HTTPClient.token may find other than a value that was written
TornToken == "torn"

\* `c.token = token` is not atomic and no lock orders it with buildRequest's read
\* of c.token: while the write is in progress a read finds the old value, the new
\* one, or a string made of parts of both
TornValues(old, new) == IF old = new THEN {old} ELSE {old, new, TornToken}

\* what a method returns to its caller.  res: the agent, as <<symbol>>, for GetAgent
\* and RefreshAgent, the data of the answer for RegisterAgent, the TokenInfo for
\* GetTokenInfo; cached: res was taken from a.agent; under: the token that agent
\* was obtained with; sent, resp: the request dispatched and what Do returned
AuthOp(t, c, res, err, cached, under) ==
    [name |-> c.op, thread |-> t, arg |-> c.arg, res |-> res, err |-> err,
     cached |-> cached, under |-> under, sent |-> c.sent, resp |-> c.resp]

\* a method returns
AuthReturn(t, c, res, err, cached, under) ==
    /\ pc' = [pc EXCEPT ![t] = "idle"]
    /\ call' = [call EXCEPT ![t] = NoCall]
    /\ lastOp' = AuthOp(t, c, res, err, cached, under)
    /\ ctxDone' = [ctxDone EXCEPT ![t] = FALSE]
    /\ ctxAtCall' = [ctxAtCall EXCEPT ![t] = FALSE]

\* a method returns an error it made itself, before it did anything
AuthFail(t, c, text) ==
    /\ AuthReturn(t, c, <<>>, WrappedError(text), FALSE, "")
    /\ UNCHANGED <<limiter, token, do, authState>>

\* a method calls a.httpClient.Do(ctx, req) with a context that is done or not
StartDo(t, c, done) ==
    /\ pc' = [pc EXCEPT ![t] = "WaitLoop"]
    /\ do' = [do EXCEPT ![t] = InDo]
    /\ call' = [call EXCEPT ![t] = c]
    /\ ctxDone' = [ctxDone EXCEPT ![t] = done]
    /\ ctxAtCall' = [ctxAtCall EXCEPT ![t] = done]
    /\ lastOp' = Internal
    /\ UNCHANGED <<limiter, token, authState>>

\* a method goes on to call a.GetAgent(ctx)
ToGetAgent(t, c, done) ==
    /\ pc' = [pc EXCEPT ![t] = "GetAgent"]
    /\ call' = [call EXCEPT ![t] = c]
    /\ ctxDone' = [ctxDone EXCEPT ![t] = done]
    /\ ctxAtCall' = [ctxAtCall EXCEPT ![t] = done]
    /\ lastOp' = Internal

\* inside a.mutex.Lock(): a.token and a.agent are written and the write of
\* HTTPClient.token (a.httpClient.SetToken) begins; ret is returned when it is done
BeginWrite(t, c, tok, agent, under, ret) ==
    /\ AuthMutexFree
    /\ amutex' = t
    /\ auth' = [token |-> tok, agent |-> agent, under |-> under]
    /\ \E v \in TornValues(token, tok) : token' = v
    /\ pc' = [pc EXCEPT ![t] = "AuthWrite"]
    /\ call' = [call EXCEPT ![t] = [c EXCEPT !.write = tok, !.ret = ret]]
    /\ lastOp' = Internal
    /\ ctxDone' = [ctxDone EXCEPT ![t] = FALSE]
    /\ ctxAtCall' = [ctxAtCall EXCEPT ![t] = FALSE]
    /\ UNCHANGED <<limiter, do, game>>

\* the write of HTTPClient.token is done; a.mutex.Unlock(); the method returns
AuthWriteEnd(t) ==
    /\ pc[t] = "AuthWrite"
    /\ token' = call[t].write
    /\ amutex' = None
    /\ AuthReturn(t, call[t],
                  IF call[t].op = "RegisterAgent" THEN call[t].data ELSE <<>>,
                  call[t].ret, FALSE, "")
    /\ UNCHANGED <<limiter, do, auth, game>>

\* RegisterAgent(ctx, callSign, faction), up to its call of Do, for a call sign, a
\* faction and a context (done or not) of these
RegisterAgentOf(t, callSigns, factions, ctxs) ==
    /\ pc[t] = "idle"
    /\ \E callSign \in callSigns, faction \in factions, done \in ctxs :
         LET c == InCall("RegisterAgent", [callSign |-> callSign, faction |-> faction])
         IN  IF callSign = <<>> THEN AuthFail(t, c, "call sign cannot be empty")
             ELSE IF faction = "" THEN AuthFail(t, c, "faction cannot be empty")
             ELSE IF ~isValidCallSign(callSign)
             THEN AuthFail(t, c, "invalid call sign format")
             ELSE IF ~isValidFaction(faction) THEN AuthFail(t, c, "invalid faction")
             ELSE StartDo(t, c, done)

RegisterAgent(t) == RegisterAgentOf(t, CallSigns, Factions, BOOLEAN)

\* RegisterAgent, from the return of Do: an error is wrapped and returned; else
\* the body is decoded and token and agent are stored
RegisterAgentTail(t) ==
    /\ pc[t] = "AuthTail"
    /\ call[t].op = "RegisterAgent"
    /\ IF call[t].err # NilError
       THEN /\ AuthReturn(t, call[t], <<>>,
                          Wrapf("registration request failed", call[t].err), FALSE, "")
            /\ UNCHANGED <<limiter, token, do, authState>>
       ELSE IF ~Unmarshals(call[t].resp[1].Body) \/ call[t].data = <<>>
       THEN /\ AuthReturn(t, call[t], <<>>,
                          WrappedError("failed to unmarshal registration response"),
                          FALSE, "")
            /\ UNCHANGED <<limiter, token, do, authState>>
       ELSE BeginWrite(t, call[t], call[t].data[1].Token,
                       <<call[t].data[1].Agent>>, call[t].data[1].Token, NilError)

\* AuthManager.SetToken(token)
AuthManagerSetToken(t) ==
    /\ pc[t] = "idle"
    /\ \E tok \in UserTokens :
           BeginWrite(t, InCall("SetToken", <<>>), tok, auth.agent, auth.under, NilError)

\* ClearAuth(), which Close() calls
ClearAuth(t) ==
    /\ pc[t] = "idle"
    /\ BeginWrite(t, InCall("ClearAuth", <<>>), "", <<>>, "", NilError)

\* what GetAgent's caller returns for (agent, err): GetAgent and RefreshAgent the
\* agent, ValidateToken nothing, GetTokenInfo the info with IsValid = (err == nil)
ResultOf(c, agent, err) ==
    CASE c.op = "ValidateToken" -> <<>>
      [] c.op = "GetTokenInfo" ->
            <<[HasToken |-> TRUE, IsValid |-> err = NilError, Agent |-> agent]>>
      [] OTHER -> agent

\* the error GetAgent's caller returns for err: ValidateToken wraps it again,
\* GetTokenInfo returns none
ErrorOf(c, err) ==
    CASE err = NilError -> NilError
      [] c.op = "ValidateToken" -> Wrapf("token validation failed", err)
      [] c.op = "GetTokenInfo" -> NilError
      [] OTHER -> err

\* GetAgent(ctx), up to its call of Do: inside a.mutex.RLock(), the cached agent
\* is returned when there is one
GetAgentBody(t, c, done) ==
    /\ AuthMutexFree
    /\ IF auth.agent # <<>>
       THEN /\ AuthReturn(t, c, ResultOf(c, auth.agent, NilError), NilError, TRUE,
                          auth.under)
            /\ UNCHANGED <<limiter, token, do, authState>>
       ELSE StartDo(t, c, done)

\* GetAgent(ctx) is called
GetAgentOf(t, ctxs) ==
    /\ pc[t] = "idle"
    /\ \E done \in ctxs : GetAgentBody(t, InCall("GetAgent", <<>>), done)

GetAgent(t) == GetAgentOf(t, BOOLEAN)

\* a.GetAgent(ctx) inside RefreshAgent, ValidateToken and GetTokenInfo
GetAgentInside(t) ==
    /\ pc[t] = "GetAgent"
    /\ GetAgentBody(t, call[t], ctxDone[t])

\* GetAgent, from the return of Do, and the rest of its caller: an error is
\* wrapped and returned, and ValidateToken clears token and agent first when it is
\* an auth error; else the body is decoded and the agent cached
GetAgentTail(t) ==
    LET c == call[t]
        err == Wrapf("failed to get agent", c.err)
        bad == WrappedError("failed to unmarshal agent response")
    IN  /\ pc[t] = "AuthTail"
        /\ c.op # "RegisterAgent"
        /\ IF c.err # NilError
           THEN IF c.op = "ValidateToken" /\ IsAuthError(err)
                THEN BeginWrite(t, c, "", <<>>, "", ErrorOf(c, err))
                ELSE /\ AuthReturn(t, c, ResultOf(c, <<>>, err), ErrorOf(c, err),
                                   FALSE, "")
                     /\ UNCHANGED <<limiter, token, do, authState>>
           ELSE IF ~Unmarshals(c.resp[1].Body) \/ c.data = <<>>
           THEN /\ AuthReturn(t, c, ResultOf(c, <<>>, bad), ErrorOf(c, bad), FALSE, "")
                /\ UNCHANGED <<limiter, token, do, authState>>
           ELSE /\ AuthMutexFree
                /\ auth' = [auth EXCEPT !.agent = <<c.data[1].Agent>>,
                                        !.under = BearerOf(c.sent[1])]
                /\ AuthReturn(t, c, ResultOf(c, <<c.data[1].Agent>>, NilError),
                              NilError, FALSE, BearerOf(c.sent[1]))
                /\ UNCHANGED <<limiter, token, do, amutex, game>>

\* RefreshAgent(ctx): the cache is cleared inside a.mutex.Lock(), then GetAgent
RefreshAgent(t) ==
    /\ pc[t] = "idle"
    /\ AuthMutexFree
    /\ auth' = [auth EXCEPT !.agent = <<>>, !.under = ""]
    /\ \E done \in BOOLEAN : ToGetAgent(t, InCall("RefreshAgent", <<>>), done)
    /\ UNCHANGED <<limiter, token, do, amutex, game>>

\* ValidateToken(ctx): `if !a.IsAuthenticated()` returns an error, else GetAgent
ValidateTokenOf(t, ctxs) ==
    /\ pc[t] = "idle"
    /\ AuthMutexFree
    /\ IF ~IsAuthenticated
       THEN AuthFail(t, InCall("ValidateToken", <<>>),
                     "no authentication token available")
       ELSE /\ \E done \in ctxs : ToGetAgent(t, InCall("ValidateToken", <<>>), done)
            /\ UNCHANGED <<limiter, token, do, authState>>

ValidateToken(t) == ValidateTokenOf(t, BOOLEAN)

\* GetTokenInfo(ctx): HasToken from GetToken(), and GetAgent when there is a token
GetTokenInfo(t) ==
    /\ pc[t] = "idle"
    /\ AuthMutexFree
    /\ IF GetToken = ""
       THEN /\ AuthReturn(t, InCall("GetTokenInfo", <<>>),
                          <<[HasToken |-> FALSE, IsValid |-> FALSE, Agent |-> <<>>]>>,
                          NilError, FALSE, "")
            /\ UNCHANGED <<limiter, token, do, authState>>
       ELSE /\ \E done \in BOOLEAN : ToGetAgent(t, InCall("GetTokenInfo", <<>>), done)
            /\ UNCHANGED <<limiter, token, do, authState>>

\* the request a method passes to Do: POST /register with the RegisterAgentRequest
\* as body, or GET /my/agent
AuthRequest(t) ==
    IF call[t].op = "RegisterAgent" THEN [Body |-> "data", Headers |-> NoHeaders]
    ELSE GetAgentRequest

\* buildRequest and the send, in a Do the AuthManager called
AuthBuild(t) == DoBuildOf(t, {AuthRequest(t)})

\* the mock server serves the call in flight: /register behind withRateLimit,
\* /my/agent behind withMiddleware
MockServe(t) ==
    /\ pc[t] = "DoFlight"
    /\ ~Aborted(t)
    /\ \E limited \in BOOLEAN :
         LET served == IF call[t].op = "RegisterAgent"
                       THEN withRateLimit(game, call[t].arg.callSign, limited)
                       ELSE withMiddlewareIn(game, do[t].httpReq[1].Header, limited)
         IN  /\ do' = [do EXCEPT ![t].httpResp = <<served.httpResp>>]
             /\ game' = served.game
             /\ call' = [call EXCEPT ![t].data = served.data]
    /\ pc' = [pc EXCEPT ![t] = "DoRead"]
    /\ lastOp' = Internal
    /\ UNCHANGED <<limiter, token, ctx, auth, amutex>>

\* ------------------------------------------------------- specification

Init ==
    /\ NewCustomTokenBucket
    /\ pc = [t \in Threads |-> "idle"]
    /\ reg = [t \in Threads |-> 0]
    /\ wake = [t \in Threads |-> 0]
    /\ ctxDone = [t \in Threads |-> FALSE]
    /\ ctxAtCall = [t \in Threads |-> FALSE]
    /\ lastOp = Op("New", None, FALSE)
    /\ admitted = 0
    /\ attempts = 0
    /\ resetCalled = FALSE
    /\ exhaustedAt = <<>>
    /\ token = ""
    /\ do = [t \in Threads |-> NoDo]
    /\ netCalls = 0
    /\ NewAuthManager("")
    /\ NewMockServer
    /\ call = [t \in Threads |-> NoCall]

Next ==
    \/ \E t \in Threads : AllowEnter(t)
    \/ \E t \in Threads : AllowExit(t)
    \/ \E t \in Threads : TryAllowEnter(t)
    \/ \E t \in Threads : TryAllowExit(t)
    \/ \E t \in Threads : Reset(t)
    \/ \E t \in Threads : GetState(t)
    \/ \E t \in Threads : WaitCall(t)
    \/ \E t \in Threads : WaitAllowEnter(t)
    \/ \E t \in Threads : WaitAllowExit(t)
    \/ \E t \in Threads : WaitSelect(t)
    \/ \E t \in Threads : WaitCancelled(t)
    \/ \E t \in Threads : WaitTimer(t)
    \/ \E t \in Threads : Cancel(t)
    \/ Tick

Spec == Init /\ [][Next]_vars

\* A goroutine blocked in Wait's select runs again once one of the two channels is
\* ready.  Nothing is assumed about the clock or about any other step.
SelectFairSpec ==
    Spec /\ \A t \in Threads : WF_vars(WaitCancelled(t) \/ WaitTimer(t))

\* the client in use: goroutines call Do concurrently on one HTTPClient, which
\* holds any of the tokens, against the mock server or another one
DoInit ==
    /\ NewCustomTokenBucket
    /\ pc = [t \in Threads |-> "idle"]
    /\ reg = [t \in Threads |-> 0]
    /\ wake = [t \in Threads |-> 0]
    /\ ctxDone = [t \in Threads |-> FALSE]
    /\ ctxAtCall = [t \in Threads |-> FALSE]
    /\ lastOp = Op("New", None, FALSE)
    /\ admitted = 0
    /\ attempts = 0
    /\ resetCalled = FALSE
    /\ exhaustedAt = <<>>
    /\ token = ""
    /\ do = [t \in Threads |-> NoDo]
    /\ netCalls = 0
    /\ NewAuthManager("")
    /\ NewMockServer
    /\ call = [t \in Threads |-> NoCall]

DoNext ==
    \/ \E t \in Threads : DoCall(t)
    \/ \E t \in Threads : WaitAllowEnter(t)
    \/ \E t \in Threads : WaitAllowExit(t)
    \/ \E t \in Threads : WaitSelect(t)
    \/ \E t \in Threads : WaitCancelled(t)
    \/ \E t \in Threads : WaitTimer(t)
    \/ \E t \in Threads : DoWaitErr(t)
    \/ \E t \in Threads : DoBuild(t)
    \/ \E t \in Threads : NetRespond(t)
    \/ \E t \in Threads : NetFail(t)
    \/ \E t \in Threads : DoReadAll(t)
    \/ \E t \in Threads : DoReadFail(t)
    \/ \E t \in Threads : Cancel(t)
    \/ Tick

DoSpec == DoInit /\ [][DoNext]_vars

\* One goroutine uses the client, as testAuthentication does: between its calls
\* it sets tokens, and it requests the agent endpoint of the mock server or of
\* another server.
Caller == "g1"

\* what the agent endpoint of another server may answer
AgentResponses ==
    [StatusCode : {StatusOK, StatusUnauthorized, StatusNotFound},
     Header : {NoHeaders}, Body : Bodies]

ClientBuild == DoBuildOf(Caller, {GetAgentRequest})
ClientRespond == \E httpResp \in AgentResponses : Received(Caller, httpResp)
ClientSetToken == \E tok \in Tokens : pc[Caller] = "idle" /\ SetToken(tok)

ClientNext ==
    \/ ClientSetToken
    \/ DoCall(Caller)
    \/ WaitAllowEnter(Caller)
    \/ WaitAllowExit(Caller)
    \/ WaitSelect(Caller)
    \/ WaitCancelled(Caller)
    \/ WaitTimer(Caller)
    \/ DoWaitErr(Caller)
    \/ ClientBuild
    \/ MockRespond(Caller)
    \/ ClientRespond
    \/ NetFail(Caller)
    \/ DoReadAll(Caller)
    \/ DoReadFail(Caller)
    \/ Cancel(Caller)
    \/ Tick

ClientSpec == DoInit /\ [][ClientNext]_vars

\* The codecs on their own: buildRequest applied to any request under any token,
\* and the tail of Do applied to any answer.  lastOp holds the input, then the
\* input with the output.
CodecInit ==
    /\ NewCustomTokenBucket
    /\ capacity = MaxCap
    /\ refillRate = 1
    /\ pc = [t \in Threads |-> "idle"]
    /\ reg = [t \in Threads |-> 0]
    /\ wake = [t \in Threads |-> 0]
    /\ ctxDone = [t \in Threads |-> FALSE]
    /\ ctxAtCall = [t \in Threads |-> FALSE]
    /\ admitted = 0
    /\ attempts = 0
    /\ resetCalled = FALSE
    /\ exhaustedAt = <<>>
    /\ token \in Tokens
    /\ do = [t \in Threads |-> NoDo]
    /\ netCalls = 0
    /\ NewAuthManager("")
    /\ NewMockServer
    /\ call = [t \in Threads |-> NoCall]
    /\ \/ \E req \in Requests : lastOp = [name |-> "req", req |-> req]
       \/ \E httpResp \in Responses :
              lastOp = [name |-> "httpResp", httpResp |-> httpResp]

\* httpReq, err := c.buildRequest(ctx, req)
CodecBuildRequest ==
    /\ lastOp.name = "req"
    /\ lastOp' = [name |-> "buildRequest", req |-> lastOp.req,
                  httpReq |-> buildRequest(lastOp.req)]
    /\ UNCHANGED <<bucketConf, client, dispatch, tokens, lastRefill, mutex, now, pc, reg,
                   wake, ctx, admitted, attempts, resetCalled, exhaustedAt>>

\* the Response and the error Do returns for httpResp once its body is read
CodecClassify ==
    /\ lastOp.name = "httpResp"
    /\ lastOp' = [name |-> "classify", httpResp |-> lastOp.httpResp,
                  resp |-> Response(lastOp.httpResp),
                  res |-> classify(lastOp.httpResp)]
    /\ UNCHANGED <<bucketConf, client, dispatch, tokens, lastRefill, mutex, now, pc, reg,
                   wake, ctx, admitted, attempts, resetCalled, exhaustedAt>>

CodecNext == CodecBuildRequest \/ CodecClassify

CodecSpec == CodecInit /\ [][CodecNext]_vars

\* A client made by client.New(config), with or without a token in its Config,
\* used by one goroutine against a new mock server.  Its bucket is the one
\* NewTokenBucket builds, which the few calls of a behaviour never empty: no Wait
\* suspends, and the clock is left where it is.
ConfigTokens == {"", "existing-token"}

AuthInit ==
    /\ NewTokenBucket
    /\ pc = [t \in Threads |-> "idle"]
    /\ reg = [t \in Threads |-> 0]
    /\ wake = [t \in Threads |-> 0]
    /\ ctxDone = [t \in Threads |-> FALSE]
    /\ ctxAtCall = [t \in Threads |-> FALSE]
    /\ lastOp = Op("New", None, FALSE)
    /\ admitted = 0
    /\ attempts = 0
    /\ resetCalled = FALSE
    /\ exhaustedAt = <<>>
    /\ token = ""
    /\ do = [t \in Threads |-> NoDo]
    /\ netCalls = 0
    /\ \E configToken \in ConfigTokens : NewAuthManager(configToken)
    /\ NewMockServer
    /\ call = [t \in Threads |-> NoCall]

AuthNext ==
    \/ RegisterAgent(Caller)
    \/ RegisterAgentTail(Caller)
    \/ AuthManagerSetToken(Caller)
    \/ ClearAuth(Caller)
    \/ AuthWriteEnd(Caller)
    \/ GetAgent(Caller)
    \/ GetAgentInside(Caller)
    \/ GetAgentTail(Caller)
    \/ RefreshAgent(Caller)
    \/ ValidateToken(Caller)
    \/ GetTokenInfo(Caller)
    \/ WaitAllowEnter(Caller)
    \/ WaitAllowExit(Caller)
    \/ AuthBuild(Caller)
    \/ MockServe(Caller)
    \/ NetFail(Caller)
    \/ DoReadAll(Caller)
    \/ DoReadFail(Caller)
    \/ Cancel(Caller)

AuthSpec == AuthInit /\ [][AuthNext]_vars

\* The same client shared by two goroutines, whose contexts stay live and which
\* register the same call sign: they register, set and clear the token, validate
\* it and get the agent concurrently.
Live == {FALSE}

SharedNext ==
    \/ \E t \in Threads : RegisterAgentOf(t, {Agent1}, {"COSMIC"}, Live)
    \/ \E t \in Threads : RegisterAgentTail(t)
    \/ \E t \in Threads : AuthManagerSetToken(t)
    \/ \E t \in Threads : ClearAuth(t)
    \/ \E t \in Threads : AuthWriteEnd(t)
    \/ \E t \in Threads : GetAgentOf(t, Live)
    \/ \E t \in Threads : GetAgentInside(t)
    \/ \E t \in Threads : GetAgentTail(t)
    \/ \E t \in Threads : ValidateTokenOf(t, Live)
    \/ \E t \in Threads : WaitAllowEnter(t)
    \/ \E t \in Threads : WaitAllowExit(t)
    \/ \E t \in Threads : AuthBuild(t)
    \/ \E t \in Threads : MockServe(t)
    \/ \E t \in Threads : NetFail(t)
    \/ \E t \in Threads : DoReadAll(t)
    \/ \E t \in Threads : DoReadFail(t)

SharedSpec == AuthInit /\ [][SharedNext]_vars

\* A bucket of a small capacity that is left alone for up to LongTime and looked
\* at in between: the clock passes one refill interval and a part of the next
\* between two accounting passes.
RefillInit == Init /\ capacity <= MaxCap

LongTick ==
    /\ now < LongTime
    /\ now' = now + 1
    /\ lastOp' = Internal
    /\ UNCHANGED <<bucketConf, client, dispatch, tokens, lastRefill, mutex, pc, reg, wake, ctx,
                   admitted, attempts, resetCalled, exhaustedAt>>

RefillNext ==
    \/ \E t \in Threads : AllowEnter(t)
    \/ \E t \in Threads : AllowExit(t)
    \/ \E t \in Threads : TryAllowEnter(t)
    \/ \E t \in Threads : TryAllowExit(t)
    \/ \E t \in Threads : GetState(t)
    \/ LongTick

RefillSpec == RefillInit /\ [][RefillNext]_vars

\* A bucket of a small capacity >= 1 in use for ever: goroutines keep calling
\* Allow and Wait with contexts that are never cancelled, and the clock never
\* stops.  The admissions are not counted here (admitted, attempts and
\* exhaustedAt stay as they are), so that nothing bounds the number of calls.

\* elapsed times from this on all give the same refill and the same waitTime:
\* tokensToAdd >= capacity and refillRate - elapsed <= 0
Horizon == MaxCap * MaxRate

\* an instant counted from an origin that has moved one unit forward
Earlier(instant) == IF instant > 0 THEN instant - 1 ELSE 0

BusyInit == Init /\ capacity \in 1 .. MaxCap

\* time passes.  Up to Horizon the clock counts from the instant the bucket was
\* built; from then on its origin moves with it, and the instants kept
\* (lastRefill, the timers) are counted from the new origin.  An instant before
\* the origin is kept as the origin.
Elapse ==
    /\ IF now < Horizon
       THEN /\ now' = now + 1
            /\ UNCHANGED <<lastRefill, wake>>
       ELSE /\ lastRefill' = Earlier(lastRefill)
            /\ wake' = [t \in Threads |-> Earlier(wake[t])]
            /\ UNCHANGED now
    /\ lastOp' = Internal
    /\ UNCHANGED <<bucketConf, client, dispatch, tokens, mutex, pc, reg, ctx,
                   admitted, attempts, resetCalled, exhaustedAt>>

\* Lock, refill, and read tb.tokens: the first half of Allow
EnterUncounted(t) ==
    LET r == refill(tokens, lastRefill, now)
    IN  /\ MutexFree
        /\ mutex' = t
        /\ tokens' = r.tokens
        /\ lastRefill' = r.lastRefill
        /\ reg' = [reg EXCEPT ![t] = r.tokens]
        /\ lastOp' = Internal
        /\ UNCHANGED <<bucketConf, client, dispatch, now, wake, ctx, admitted, attempts,
                       resetCalled, exhaustedAt>>

\* tb.tokens-- when a token was seen, and the deferred Unlock
ExitUncounted(t) ==
    /\ mutex' = None
    /\ reg' = [reg EXCEPT ![t] = 0]
    /\ tokens' = IF HasToken(reg[t]) THEN WrapInt(reg[t] - 1) ELSE tokens
    /\ UNCHANGED <<bucketConf, client, dispatch, lastRefill, now, wake, ctx, admitted,
                   attempts, resetCalled, exhaustedAt>>

\* Allow()
BusyAllowEnter(t) ==
    /\ pc[t] = "idle"
    /\ EnterUncounted(t)
    /\ pc' = [pc EXCEPT ![t] = "Allow"]

BusyAllowExit(t) ==
    /\ pc[t] = "Allow"
    /\ ExitUncounted(t)
    /\ pc' = [pc EXCEPT ![t] = "idle"]
    /\ lastOp' = Op("Allow", t, HasToken(reg[t]))

\* Wait(ctx) is called with a context that is never cancelled
BusyWaitCall(t) == WaitCall(t) /\ ~ctxDone'[t]

\* `if tb.Allow()` at the top of Wait's loop, and `return nil`
BusyWaitAllowEnter(t) ==
    /\ pc[t] = "WaitLoop"
    /\ EnterUncounted(t)
    /\ pc' = [pc EXCEPT ![t] = "WaitAllow"]

BusyWaitAllowExit(t) ==
    /\ pc[t] = "WaitAllow"
    /\ ExitUncounted(t)
    /\ pc' = [pc EXCEPT ![t] = IF HasToken(reg[t]) THEN "idle" ELSE "WaitCalc"]
    /\ lastOp' = IF HasToken(reg[t]) THEN WaitOp(t, "ok", FALSE) ELSE Internal

BusyNext ==
    \/ \E t \in Threads : BusyAllowEnter(t)
    \/ \E t \in Threads : BusyAllowExit(t)
    \/ \E t \in Threads : BusyWaitCall(t)
    \/ \E t \in Threads : BusyWaitAllowEnter(t)
    \/ \E t \in Threads : BusyWaitAllowExit(t)
    \/ \E t \in Threads : WaitSelect(t)
    \/ \E t \in Threads : WaitTimer(t)
    \/ Elapse

BusySpec == BusyInit /\ [][BusyNext]_vars

\* Time advances, and scheduling is fair: a step of a goroutine that can be
\* taken again and again is taken, be it a lock that is free again and again
\* or a timer that is due.
BusyFairSpec ==
    /\ BusySpec
    /\ WF_vars(Elapse)
    /\ \A t \in Threads :
          /\ SF_vars(BusyAllowEnter(t))
          /\ SF_vars(BusyAllowExit(t))
          /\ SF_vars(BusyWaitAllowEnter(t))
          /\ SF_vars(BusyWaitAllowExit(t))
          /\ SF_vars(WaitSelect(t))
          /\ SF_vars(WaitTimer(t))

TypeOK ==
    /\ capacity \in Capacities \cup {DefaultCapacity}
    /\ refillRate \in RefillRates
    /\ tokens \in MinInt .. MaxInt
    /\ lastRefill \in 0 .. now
    /\ mutex \in Threads \cup {None}
    /\ admitted \in 0 .. MaxAttempts
    /\ attempts \in 0 .. MaxAttempts

\* ---------------------------------------------------------------- claims

\* a non-blocking admission call (Allow or TryAllow) returned last
NonBlockingReturned == lastOp.name \in {"Allow", "TryAllow"}

\* BucketState.IsEmpty and IsFull of a snapshot with these Tokens
IsEmpty(tok) == tok <= 0
IsFull(tok) == tok >= capacity

\* the bucket was never Reset and less than one refill interval has passed since
\* it was built (at instant 0)
Fresh == ~resetCalled /\ now < refillRate

\* C1: for a bucket built with capacity >= 0, in every reachable state
\* 0 <= tokens <= capacity.
C1_TokensWithinCapacity == 0 <= tokens /\ tokens <= capacity

\* C2: against a fresh bucket of capacity C, while no refill interval elapses, of
\* the N admission attempts that concurrent callers have completed exactly
\* min(N, C) were admitted.
C2_AdmitsMinOfCallsAndCapacity == Fresh => admitted = Min(attempts, capacity)

C2_Witness ==
    /\ Fresh
    /\ capacity >= 1
    /\ attempts > capacity
    /\ admitted = capacity
    /\ NonBlockingReturned /\ lastOp.thread = "g2" /\ ~lastOp.res
    /\ pc["g1"] = "WaitCalc"

\* C3: on a bucket on which Reset is never called, built at instant 0, the number
\* of admissions granted so far is at most capacity + floor(now / refillRate).
C3_RateBound == ~resetCalled => admitted <= capacity + (now \div refillRate)

C3_Witness ==
    /\ ~resetCalled
    /\ capacity >= 1
    /\ now >= refillRate
    /\ admitted = capacity + (now \div refillRate)

\* C4: for capacity C >= 1, while less than one refill interval has elapsed on a
\* fresh bucket, the k-th non-blocking call is admitted exactly when k <= C, and
\* a snapshot taken after the C admissions reports empty.
C4_BurstThenDeny ==
    (Fresh /\ capacity >= 1) =>
        /\ NonBlockingReturned => (lastOp.res <=> attempts <= capacity)
        /\ (lastOp.name = "GetState" /\ admitted = capacity) => IsEmpty(lastOp.res)

C4_Witness ==
    /\ Fresh
    /\ capacity >= 1
    /\ admitted = capacity
    /\ attempts = capacity + 1
    /\ lastOp.name = "GetState"
    /\ IsEmpty(lastOp.res)

\* C5: a bucket of capacity 0 never grants an admission: Allow and TryAllow return
\* false, every snapshot reports tokens = 0, and Wait returns only as cancelled.
C5_ZeroCapacityDenies ==
    capacity = 0 =>
        /\ tokens = 0
        /\ admitted = 0
        /\ NonBlockingReturned => ~lastOp.res
        /\ lastOp.name = "GetState" => lastOp.res = 0
        /\ lastOp.name = "Wait" => lastOp.res = "cancelled"

C5_Witness ==
    /\ capacity = 0
    /\ now >= 2 * refillRate
    /\ attempts >= 2
    /\ lastOp.name = "Wait"
    /\ lastOp.res = "cancelled"

\* the instant of exhaustion (0 when there is none)
ExhaustedInstant == IF exhaustedAt = <<>> THEN 0 ELSE exhaustedAt[1]

\* C6: for capacity >= 1, once an admission has taken the last permit at instant
\* exhaustedAt and none was granted since, an Allow or TryAllow that starts at
\* exhaustedAt + refillRate or later finds a permit and returns true, whatever
\* denied attempts and snapshots came in between.
C6_AdmitsOneIntervalAfterExhaustion ==
    [][\A t \in Threads :
        /\ ( /\ capacity >= 1
             /\ exhaustedAt # <<>>
             /\ pc[t] = "idle"
             /\ pc'[t] \in {"Allow", "TryAllow"}
             /\ now >= ExhaustedInstant + refillRate )
           => HasToken(reg'[t])
        /\ ( /\ pc[t] \in {"Allow", "TryAllow"}
             /\ reg[t] > 0
             /\ pc'[t] = "idle" )
           => (lastOp'.res /\ admitted' = admitted + 1)
      ]_vars

C6_Witness ==
    \E t \in Threads :
        /\ capacity >= 1
        /\ exhaustedAt # <<>>
        /\ attempts > admitted
        /\ pc[t] \in {"Allow", "TryAllow"}
        /\ now >= ExhaustedInstant + refillRate
        /\ lastRefill = now
        /\ HasToken(reg[t])

\* C7: while tokens = 0 and less than one refillRate has elapsed since lastRefill,
\* no step other than Reset grants an admission or changes tokens or lastRefill.
C7_NoAdmissionBeforeInterval ==
    [][ ( /\ tokens = 0
          /\ now - lastRefill < refillRate
          /\ lastOp'.name # "Reset" )
        => ( /\ tokens' = 0
             /\ lastRefill' = lastRefill
             /\ admitted' = admitted
             /\ (lastOp'.name \in {"Allow", "TryAllow"} => ~lastOp'.res)
             /\ (lastOp'.name = "Wait" => lastOp'.res # "ok") )
      ]_vars

C7_Witness ==
    /\ capacity >= 1
    /\ tokens = 0
    /\ now > lastRefill
    /\ now - lastRefill < refillRate
    /\ attempts >= admitted + 2
    /\ lastOp.name = "TryAllow"
    /\ ~lastOp.res

\* C8: Reset, in any reachable state, leaves tokens = capacity and lastRefill = the
\* instant of the reset, and a snapshot taken right after it reports full.
C8_ResetRestoresFull ==
    [][ /\ lastOp'.name = "Reset" => (tokens' = capacity /\ lastRefill' = now')
        /\ (lastOp.name = "Reset" /\ lastOp'.name = "GetState")
           => (IsFull(lastOp'.res) /\ lastOp'.res = capacity)
      ]_vars

C8_Witness ==
    /\ lastOp.name = "Reset"
    /\ capacity >= 1
    /\ admitted >= 1
    /\ now > 0
    /\ tokens = capacity
    /\ \E t \in Threads : pc[t] = "WaitSelect"

\* C9: when the cancellation signal was already fired when Wait was called, Wait
\* returns Cancelled (not ok) and consumes no token.
C9_CancelledBeforePermit ==
    (lastOp.name = "Wait" /\ lastOp.fired) => lastOp.res = "cancelled"

\* C10: a Wait suspended in its select on an empty bucket whose cancellation signal
\* has fired leaves the select without any time passing or token arriving, and
\* while its timer has not fired the only way it leaves is by returning Cancelled,
\* taking no token.
C10_CancelWakesSuspendedWait ==
    /\ [][\A t \in Threads :
            ( /\ pc[t] = "WaitSelect"
              /\ ctxDone[t]
              /\ now < wake[t]
              /\ pc'[t] # "WaitSelect" )
            => ( /\ lastOp' = WaitOp(t, "cancelled", ctxAtCall[t])
                 /\ pc'[t] = "idle"
                 /\ tokens' = tokens
                 /\ now' = now )
         ]_vars
    /\ \A t \in Threads :
            (pc[t] = "WaitSelect" /\ ctxDone[t]) ~> (pc[t] # "WaitSelect")

C10_Witness ==
    /\ lastOp.name = "Wait"
    /\ lastOp.res = "cancelled"
    /\ ~lastOp.fired
    /\ capacity >= 1
    /\ tokens = 0
    /\ now - lastRefill < refillRate
    /\ wake[lastOp.thread] = 0

\* C11: GetState refills as TryAllow does but consumes nothing: a GetState step
\* never decreases tokens and reports the tokens it leaves, and a snapshot taken
\* right after another one, with no step in between, reports the same tokens.
C11_GetStateNeverDecreases ==
    [][ lastOp'.name = "GetState" =>
          /\ tokens' >= tokens
          /\ lastOp'.res = tokens'
          /\ admitted' = admitted
          /\ lastOp.name = "GetState" => lastOp'.res = lastOp.res
      ]_vars

\* ------------------------------------------------- claims on HTTPClient.Do

\* Do returned last, to thread t or to any thread
DoReturned == lastOp.name = "Do"

\* C12: when the Wait inside a Do returns Cancelled, that Do goes nowhere but to
\* its return, which gives the cancellation error and no Response; it has built no
\* request and made no network call, and makes none.
C12_CancelledWaitSkipsNetwork ==
    [][\A t \in Threads :
        /\ ( /\ do[t].active
             /\ lastOp'.name = "Wait"
             /\ lastOp'.thread = t
             /\ lastOp'.res = "cancelled" )
           => pc'[t] = "DoWaitErr"
        /\ pc[t] = "DoWaitErr"
           => /\ do[t].httpReq = <<>>
              /\ do[t].calls = 0
              /\ pc'[t] \in {"DoWaitErr", "idle"}
              /\ pc'[t] = "idle"
                 => /\ lastOp'.name = "Do"
                    /\ lastOp'.thread = t
                    /\ lastOp'.resp = <<>>
                    /\ lastOp'.res = WrappedError("rate limiter cancelled")
                    /\ netCalls' = netCalls
      ]_vars

C12_Witness ==
    /\ DoReturned
    /\ lastOp.res = WrappedError("rate limiter cancelled")
    /\ lastOp.resp = <<>>
    /\ ~lastOp.fired
    /\ netCalls = 0
    /\ capacity = 0

\* C13: a Do whose context is done when it returns - the signal fired before the
\* call, during its admission wait, or while its network call was in flight or
\* its body was being read - returns an error and no Response, never success.
C13_DoneContextYieldsError ==
    (DoReturned /\ (lastOp.done \/ lastOp.fired)) =>
        /\ lastOp.res # NilError
        /\ lastOp.resp = <<>>

C13_Witness ==
    /\ DoReturned
    /\ lastOp.fired
    /\ lastOp.done
    /\ lastOp.res = WrappedError("request failed")
    /\ admitted = 1
    /\ netCalls = 1

\* C14: a Do that has started its network call has, before it, got nil from a Wait
\* that consumed exactly one permit; so no Do has more network calls than permits,
\* and under every interleaving of concurrent Do calls the network calls started
\* never outnumber the permits the bucket granted.
C14_AdmissionBeforeNetwork ==
    /\ netCalls <= admitted
    /\ \A t \in Threads :
         /\ do[t].calls <= do[t].permits
         /\ pc[t] \in {"DoFlight", "DoRead"} => (do[t].calls = 1 /\ do[t].permits = 1)

C14_Witness ==
    /\ netCalls = 2
    /\ admitted = 2
    /\ capacity = 1
    /\ pc["g1"] = "DoFlight"
    /\ pc["g2"] = "DoRead"

\* C15: Do does not retry: whatever its call is answered with, one invocation
\* starts at most one network call and consumes at most one permit.
C15_NoRetry ==
    \A t \in Threads : do[t].calls <= 1 /\ do[t].permits <= 1

C15_Witness ==
    \E t \in Threads :
        /\ pc[t] = "DoRead"
        /\ do[t].httpResp[1].StatusCode = StatusTooManyRequests
        /\ do[t].calls = 1
        /\ do[t].permits = 1
        /\ tokens >= 1
        /\ attempts < MaxAttempts

\* thread t is inside Do and this step is its return
DoReturns(t) == do[t].active /\ pc'[t] = "idle"

\* C16: Do returns a non-nil Response if and only if a status code was received.
C16_ResponseIffStatus ==
    [][\A t \in Threads :
        DoReturns(t) => (lastOp'.resp # <<>> <=> do[t].httpResp # <<>>)
      ]_vars

\* C16, amended: Do returns a non-nil Response if and only if a status code was
\* received and the body was then read in full.  Such a Response carries the
\* status, headers and body received, together with an error exactly when the
\* status is >= 400; a failure before a status code is obtained, or while the body
\* is read, yields an error and no Response.
C16_ResponseIffStatusAndBody ==
    [][\A t \in Threads :
        DoReturns(t) =>
          /\ lastOp'.resp # <<>>
               <=> ( /\ do[t].httpResp # <<>>
                     /\ lastOp'.res # WrappedError("failed to read response body") )
          /\ lastOp'.resp # <<>>
               => /\ lastOp'.resp[1].StatusCode = do[t].httpResp[1].StatusCode
                  /\ lastOp'.resp[1].Headers = do[t].httpResp[1].Header
                  /\ lastOp'.resp[1].Body = do[t].httpResp[1].Body
                  /\ lastOp'.res # NilError <=> do[t].httpResp[1].StatusCode >= 400
          /\ lastOp'.resp = <<>> => lastOp'.res # NilError
      ]_vars

C16_Witness ==
    /\ DoReturned
    /\ lastOp.res = WrappedError("failed to read response body")
    /\ lastOp.resp = <<>>
    /\ ~lastOp.done
    /\ netCalls = 1

\* C19: every 401 a Do receives, whether its body decodes as an API error or not,
\* comes back with an error IsAuthError recognises; against the mock server's agent
\* endpoint (when its own rate limiter lets the request through) a client with no
\* token gets such an error, and a client whose token was set to a valid one
\* gets the agent and no error.
C19_UnauthorizedIsAuthError ==
    [][ ( /\ DoReturns(Caller)
          /\ pc[Caller] = "DoRead"
          /\ lastOp'.resp # <<>> )
        => LET httpReq == do[Caller].httpReq[1]
               httpResp == do[Caller].httpResp[1]
           IN  /\ httpResp.StatusCode = StatusUnauthorized => IsAuthError(lastOp'.res)
               /\ httpResp = withMiddleware(httpReq, FALSE)
                  => /\ token = "" => IsAuthError(lastOp'.res)
                     /\ token \in MockTokens
                        => /\ lastOp'.res = NilError
                           /\ lastOp'.resp[1].StatusCode = StatusOK
      ]_vars

C19_Witness ==
    /\ DoReturned
    /\ lastOp.res = NilError
    /\ lastOp.resp[1] = Response(writeJSONResponse(StatusOK))
    /\ token \in MockTokens
    /\ netCalls = 2
    /\ admitted = 2


\* ----------------------------------------------------- claims on the codecs

\* the tail of Do was applied to an answer: lastOp holds the answer and the result
Classified == lastOp.name = "classify"

\* C17: the error returned next to a Response is nil exactly for a status < 400,
\* a RateLimitError (and no APIError) exactly for 429, and an APIError for every
\* other status >= 400, which IsAuthError recognises exactly for 401; no error is
\* both a RateLimitError and an APIError.
C17_ClassificationTotalExclusive ==
    Classified =>
        LET status == lastOp.httpResp.StatusCode
            err == lastOp.res
        IN  /\ err = NilError <=> status < 400
            /\ IsRateLimitError(err) <=> status = StatusTooManyRequests
            /\ IsAPIError(err) <=> (status >= 400 /\ status # StatusTooManyRequests)
            /\ IsAuthError(err) <=> status = StatusUnauthorized
            /\ ~(IsRateLimitError(err) /\ IsAPIError(err))
            /\ IsAPIError(err) => err.StatusCode = status

C17_Witness ==
    /\ Classified
    /\ lastOp.httpResp.StatusCode = StatusTooManyRequests
    /\ lastOp.httpResp.Header = NoHeaders
    /\ IsRateLimitError(lastOp.res)
    /\ ~IsAPIError(lastOp.res)

\* the text is a decimal integer: an optional sign, then one or more digits
IsNumeral(text) ==
    LET ds == IF text # <<>> /\ text[1] \in {"+", "-"} THEN Tail(text) ELSE text
    IN  ds # <<>> /\ \A i \in 1 .. Len(ds) : IsDigit(ds[i])

\* the integer a numeral denotes, whatever its size
NumeralValue(text) ==
    IF text[1] = "-" THEN 0 - Magnitude(Tail(text))
    ELSE IF text[1] = "+" THEN Magnitude(Tail(text))
    ELSE Magnitude(text)

\* the header parses as an int: it is a numeral whose value an int can hold
ParsesAsInt(text) ==
    IsNumeral(text) /\ NumeralValue(text) >= MinInt /\ NumeralValue(text) <= MaxInt

\* C18: for a 429, RetryAfter is the Retry-After header in whole seconds, Limit
\* and Remaining are the integer values of x-ratelimit-limit and
\* x-ratelimit-remaining, Type is x-ratelimit-type and Reset is the instant
\* x-ratelimit-reset gives; a field whose header is absent or does not parse is
\* the zero value.
C18_RateLimitFields ==
    (Classified /\ lastOp.httpResp.StatusCode = StatusTooManyRequests) =>
        LET h == lastOp.httpResp.Header
            err == lastOp.res
            intOf(k) == IF ParsesAsInt(HeaderGet(h, k))
                        THEN NumeralValue(HeaderGet(h, k)) ELSE 0
            reset == HeaderGet(h, "x-ratelimit-reset")
        IN  /\ err.RetryAfter = intOf("Retry-After") * Second
            /\ err.Limit = intOf("x-ratelimit-limit")
            /\ err.Remaining = intOf("x-ratelimit-remaining")
            /\ err.Type = HeaderGet(h, "x-ratelimit-type")
            /\ err.Reset = IF ParsesAsInt(reset) THEN Unix(NumeralValue(reset))
                           ELSE IF reset = <<"T", "1">> THEN Unix(1)
                           ELSE ZeroTime

\* buildRequest was applied to a request and built it: lastOp holds both
Built == lastOp.name = "buildRequest" /\ lastOp.httpReq.ok

\* the caller's req.Headers name header k, under any spelling of it
Overrides(req, k) ==
    \E c \in DOMAIN req.Headers : CanonicalMIMEHeaderKey(c) = CanonicalMIMEHeaderKey(k)

\* C20: a built request carries `Authorization: Bearer <token>` exactly when the
\* token is non-empty and the caller's headers do not name Authorization,
\* `Content-Type: application/json` exactly when there is a body and the caller
\* does not override it, the configured User-Agent unless overridden, and every
\* header of the caller with the caller's value; it carries nothing else.
C20_RequestHeaders ==
    Built =>
        LET req == lastOp.req
            h == lastOp.httpReq.Header
        IN  /\ HeaderGet(h, "Authorization") = <<"Bearer", token>>
                 <=> (token # "" /\ ~Overrides(req, "Authorization"))
            /\ HeaderGet(h, "Content-Type") = <<"application/json">>
                 <=> (req.Body # "nil" /\ ~Overrides(req, "Content-Type"))
            /\ ~Overrides(req, "User-Agent") => HeaderGet(h, "User-Agent") = userAgent
            /\ \A c \in DOMAIN req.Headers : HeaderGet(h, c) = req.Headers[c]
            /\ \A n \in DOMAIN h :
                 \/ Overrides(req, n)
                 \/ n = "User-Agent"
                 \/ n = "Content-Type" /\ req.Body # "nil"
                 \/ n = "Authorization" /\ token # ""

C20_Witness ==
    /\ Built
    /\ token = "valid"
    /\ lastOp.req.Body = "data"
    /\ DOMAIN lastOp.req.Headers = {"authorization"}
    /\ lastOp.httpReq.Header["Authorization"] = <<"caller">>
    /\ lastOp.httpReq.Header["Content-Type"] = <<"application/json">>
    /\ lastOp.httpReq.Header["User-Agent"] = userAgent

\* ------------------------------------------------ claims on the AuthManager

\* C21: the token GetToken and IsAuthenticated report is the token the transport
\* attaches: whenever no method is inside a.mutex, AuthManager.token =
\* HTTPClient.token, from construction on, and a request in flight of a client that
\* reports itself authenticated carries `Authorization: Bearer <that token>`.
C21_TokenUsedByTransport ==
    /\ AuthMutexFree => GetToken = token
    /\ (pc[Caller] = "DoFlight" /\ IsAuthenticated)
           => HeaderGet(do[Caller].httpReq[1].Header, "Authorization")
                = <<"Bearer", GetToken>>

\* thread t is inside `c.token = token` (HTTPClient.SetToken), holding a.mutex
WritesToken(t) == pc[t] = "AuthWrite"

\* thread t is at buildRequest's `if c.token != ""`, holding no lock
ReadsToken(t) == pc[t] = "DoBuild"

\* C22: in no reachable state does one thread write HTTPClient.token while another
\* reads it without a lock both hold.
C22_NoTokenRace ==
    \A w \in Threads, r \in Threads : ~(w # r /\ WritesToken(w) /\ ReadsToken(r))

\* a call sign that is empty, shorter than 3 or longer than 14 characters, or has a
\* character other than letters, digits and underscore; a faction that is not known
BadCallSign(callSign) ==
    \/ Len(callSign) < 3
    \/ Len(callSign) > 14
    \/ \E i \in 1 .. Len(callSign) :
          ~(callSign[i] \in Letters \/ IsDigit(callSign[i]) \/ callSign[i] = "_")
BadRegistration(arg) == BadCallSign(arg.callSign) \/ ~isValidFaction(arg.faction)

\* C23: RegisterAgent with an invalid call sign or an unknown faction never goes on
\* to Do: it returns an error in the step in which it is called, and that step
\* consumes no permit, makes no network call and leaves the stored token, the
\* cached agent, the transport's token and the server unchanged.
C23_InvalidRegistrationRejected ==
    [][ /\ (call'[Caller].op = "RegisterAgent" /\ call[Caller].op = None)
               => ~BadRegistration(call'[Caller].arg)
        /\ (lastOp'.name = "RegisterAgent" /\ BadRegistration(lastOp'.arg))
               => /\ pc[Caller] = "idle"
                  /\ lastOp'.err # NilError
                  /\ lastOp'.sent = <<>>
                  /\ <<tokens, admitted, attempts, netCalls>>'
                        = <<tokens, admitted, attempts, netCalls>>
                  /\ <<auth, token, game>>' = <<auth, token, game>>
      ]_vars

C23_Witness ==
    /\ lastOp.name = "RegisterAgent"
    /\ BadCallSign(lastOp.arg.callSign)
    /\ Len(lastOp.arg.callSign) = 2
    /\ lastOp.err # NilError
    /\ auth.agent = <<Agent1>>
    /\ auth.token = generateToken(Agent1)
    /\ netCalls = 1

\* the mock server serves the registration goroutine t has in flight in this step
ServesRegistration(t) ==
    /\ pc[t] = "DoFlight"
    /\ pc'[t] = "DoRead"
    /\ call[t].op = "RegisterAgent"
    /\ do'[t].httpResp # <<>>

wholeIntervalsElapsed == (now - lastRefill) \div refillRate

\* this step is an accounting pass: a GetState, or the refill at the start of an
\* Allow or TryAllow
AccountingPass == lastOp'.name = "GetState" \/ (mutex = None /\ mutex' # None)

\* C25: an accounting pass with wholeIntervalsElapsed > 0 adds exactly that many
\* tokens, clamped to capacity, and advances lastRefill by exactly
\* wholeIntervalsElapsed * refillRate, not to now.
C25_RefillKeepsFraction ==
    [][ (AccountingPass /\ wholeIntervalsElapsed > 0)
          => /\ tokens' = Min(capacity, tokens + wholeIntervalsElapsed)
             /\ lastRefill' = lastRefill + wholeIntervalsElapsed * refillRate
      ]_vars

\* C26: every suspension inside Wait lasts at most one refillRate: the timer a
\* Wait starts is due later than now and no later than now + refillRate, so a
\* Reset that comes while a Wait is suspended finds that Wait's timer due within
\* one refillRate of the Reset; and when that timer fires on the bucket as a
\* Reset left it (full, with capacity >= 1, no permit taken), the accounting pass
\* of the re-check leaves a permit, which the re-check sees, and the Wait that
\* sees a permit returns ok.
C26_BoundedSuspension ==
    [][\A t \in Threads :
        /\ (pc[t] = "WaitCalc" /\ pc'[t] = "WaitSelect")
              => (now < wake'[t] /\ wake'[t] <= now + refillRate)
        /\ (lastOp'.name = "Reset" /\ pc[t] = "WaitSelect")
              => wake[t] <= now + refillRate
        /\ ( /\ pc[t] = "WaitSelect"
             /\ pc'[t] = "WaitLoop"
             /\ resetCalled
             /\ capacity >= 1
             /\ tokens = capacity )
              => HasToken(refill(tokens, lastRefill, now).tokens)
        /\ (pc[t] = "WaitLoop" /\ pc'[t] = "WaitAllow")
              => reg'[t] = refill(tokens, lastRefill, now).tokens
        /\ (pc[t] = "WaitAllow" /\ pc'[t] # "WaitAllow" /\ HasToken(reg[t]))
              => (lastOp' = WaitOp(t, "ok", ctxAtCall[t]) /\ pc'[t] = "idle")
      ]_vars

\* C27: ValidateToken validates the current token by an API call: a ValidateToken
\* that returns nil has dispatched a request that carried the token now stored,
\* and the server answered that request 200.
C27_ValidateTokenAsksServer ==
    (lastOp.name = "ValidateToken" /\ lastOp.err = NilError)
        => /\ lastOp.sent # <<>>
           /\ BearerOf(lastOp.sent[1]) = GetToken
           /\ lastOp.resp # <<>>
           /\ lastOp.resp[1].StatusCode = StatusOK

\* the Do of call c was answered with 401
Answered401(c) == c.resp # <<>> /\ c.resp[1].StatusCode = StatusUnauthorized

\* C28: a ValidateToken whose request was answered 401 returns its error with the
\* token and the cached agent of the AuthManager and the token of the HTTPClient
\* cleared; every other step of a ValidateToken, but the one that returns nil,
\* leaves the token, the cached agent and the transport's token as they are, so
\* that a ValidateToken that fails for another reason has changed none of them.
C28_ClearsOnlyOnAuthError ==
    [][ (call[Caller].op = "ValidateToken" \/ lastOp'.name = "ValidateToken")
          => IF call[Caller].op = "ValidateToken" /\ Answered401(call[Caller])
             THEN lastOp'.name = "ValidateToken"
                    => /\ lastOp'.err # NilError
                       /\ IsAuthError(lastOp'.err)
                       /\ auth'.token = ""
                       /\ auth'.agent = <<>>
                       /\ token' = ""
             ELSE \/ lastOp'.name = "ValidateToken" /\ lastOp'.err = NilError
                  \/ <<auth, token>>' = <<auth, token>>
      ]_vars

\* a 401 cleared a token that was set, in the AuthManager and in the HTTPClient
C28_Witness ==
    /\ lastOp.name = "ValidateToken"
    /\ Answered401(lastOp)
    /\ BearerOf(lastOp.sent[1]) = "existing-token"
    /\ IsAuthError(lastOp.err)
    /\ auth = [token |-> "", agent |-> <<>>, under |-> ""]
    /\ token = ""

\* a ValidateToken failed for another reason and the token is still set
C28_WitnessOther ==
    /\ lastOp.name = "ValidateToken"
    /\ lastOp.err # NilError
    /\ ~Answered401(lastOp)
    /\ lastOp.sent # <<>>
    /\ auth.token = "existing-token"
    /\ token = "existing-token"

\* C29: the cached agent belongs to the current token: an agent that GetAgent, or
\* GetTokenInfo through it, returns from the cache was cached under the token
\* that is set now.
C29_CachedAgentOfCurrentToken ==
    (lastOp.name \in {"GetAgent", "GetTokenInfo"} /\ lastOp.cached)
        => lastOp.under = GetToken

\* C30: no Wait starves: for capacity >= 1, with time advancing and fair
\* scheduling, every Wait whose context is never cancelled returns ok, while other
\* goroutines keep calling Allow and Wait on the bucket.
C30_NoStarvation ==
    \A t \in Threads : (pc[t] = "WaitLoop") ~> (lastOp = WaitOp(t, "ok", FALSE))

====
